---- MODULE Spec2Model ----
(***************************************************************************)
(* Model of the DOCX template filler (src/src/docx_filler.py):             *)
(*   - DOCXFiller._build_replacements : profile record -> PlaceholderMap   *)
(*   - DOCXFiller._replace_in_paragraph : one scan/split/rebuild pass      *)
(*   - DOCXFiller._add_hyperlink : hyperlink element construction          *)
(*   - DOCXFiller.fill_template : the pass loops over body and table cells *)
(* and of the output cleaning of the crew (src/src/crew.py):               *)
(*   - JobCVCrew._clean_yaml_output, JobCVCrew.save_customized_cv          *)
(*                                                                         *)
(* Text is a sequence of one-character strings.  Offsets into text are     *)
(* 0-based as in the Python code; TLA+ sequences are 1-based, so the       *)
(* character at offset p is text[p + 1].                                   *)
(***************************************************************************)
EXTENDS Integers, Sequences, FiniteSets, TLC

VARIABLES cv_data, replacements, template, doc, rels, pc, para_idx,
          iteration, calls, fills, last, crew

vars == <<cv_data, replacements, template, doc, rels, pc, para_idx,
          iteration, calls, fills, last, crew>>

----------------------------------------------------------------------------
(* Sequences and text                                                      *)

RECURSIVE Concat(_)
\* ''.join(parts) for a sequence of texts
Concat(parts) ==
  IF parts = <<>> THEN <<>> ELSE Head(parts) \o Concat(Tail(parts))

RECURSIVE JoinText(_, _)
\* sep.join(parts) for a sequence of texts
JoinText(sep, parts) ==
  IF parts = <<>> THEN <<>>
  ELSE IF Len(parts) = 1 THEN parts[1]
  ELSE parts[1] \o sep \o JoinText(sep, Tail(parts))

\* text[a:b] with 0 <= a, Python slice semantics (clamped at the end)
Slice(text, a, b) ==
  LET hi == IF b > Len(text) THEN Len(text) ELSE b
  IN  IF a >= hi THEN <<>> ELSE SubSeq(text, a + 1, hi)

\* text[a:]
SliceFrom(text, a) == Slice(text, a, Len(text))

\* text.startswith(prefix)
StartsWith(text, prefix) ==
  /\ Len(prefix) <= Len(text)
  /\ SubSeq(text, 1, Len(prefix)) = prefix

\* does `sub` occur in `text` at 0-based offset p
OccursAt(text, sub, p) ==
  /\ p >= 0
  /\ p + Len(sub) <= Len(text)
  /\ \A i \in 1..Len(sub) : text[p + i] = sub[i]

\* sub in text
Contains(text, sub) == \E p \in 0..(Len(text) - Len(sub)) : OccursAt(text, sub, p)

\* text.find(sub): lowest offset of an occurrence, -1 when there is none
Find(text, sub) ==
  IF Contains(text, sub)
  THEN CHOOSE p \in 0..(Len(text) - Len(sub)) :
         /\ OccursAt(text, sub, p)
         /\ \A q \in 0..(p - 1) : ~OccursAt(text, sub, q)
  ELSE -1

Digits == <<"0", "1", "2", "3", "4", "5", "6", "7", "8", "9">>

RECURSIVE Dec(_)
\* str(n) for a natural number n
Dec(n) == IF n < 10 THEN <<Digits[n + 1]>>
          ELSE Dec(n \div 10) \o <<Digits[(n % 10) + 1]>>

----------------------------------------------------------------------------
(* Python values of the profile record.  yaml.safe_load yields strings,    *)
(* None, integers, lists and dicts; the code tests their type              *)
(* (isinstance) and truthiness, so every value carries its type tag.       *)

None == [t |-> "none"]
S(text) == [t |-> "str", v |-> text]
I(n) == [t |-> "int", v |-> n]
B(b) == [t |-> "bool", v |-> b]
L(items) == [t |-> "list", v |-> items]
D(fields) == [t |-> "dict", v |-> fields]

IsStr(x) == x.t = "str"
IsList(x) == x.t = "list"
IsDict(x) == x.t = "dict"

\* Python truthiness
Truthy(x) ==
  CASE x.t = "none" -> FALSE
    [] x.t = "str" -> x.v # <<>>
    [] x.t = "int" -> x.v # 0
    [] x.t = "bool" -> x.v
    [] x.t = "list" -> x.v # <<>>
    [] OTHER -> DOMAIN x.v # {}

\* str(x) / f"{x}" for the scalar values
Str(x) ==
  CASE x.t = "none" -> <<"N", "o", "n", "e">>
    [] x.t = "str" -> x.v
    [] x.t = "int" -> Dec(x.v)
    [] OTHER -> <<"?">>

\* d.get(key, default) on the fields of a dict
Get(fields, key, default) == IF key \in DOMAIN fields THEN fields[key] ELSE default

Empty == S(<<>>)

----------------------------------------------------------------------------
(* DOCXFiller._build_replacements                                          *)

\* the en-dash character of the date separator, one character of text
EnDash == "EN-DASH"
Newline == "\n"

\* f'{{{{...}}}}': the token with the given body
Tok(body) == <<"{", "{">> \o body \o <<"}", "}">>

TokNAME == Tok(<<"N", "A", "M", "E">>)
TokName == Tok(<<"N", "a", "m", "e">>)
TokLOCATION == Tok(<<"L", "O", "C", "A", "T", "I", "O", "N">>)
TokEMAIL == Tok(<<"E", "M", "A", "I", "L">>)
TokPHONE == Tok(<<"P", "H", "O", "N", "E">>)
TokGITHUB == Tok(<<"G", "I", "T", "H", "U", "B">>)
TokLINKEDIN == Tok(<<"L", "I", "N", "K", "E", "D", "I", "N">>)

PfxEDU == <<"E", "D", "U", "_">>
PfxEXP == <<"E", "X", "P", "_">>
PfxPROJ == <<"P", "R", "O", "J", "_">>
SfxSCHOOL == <<"_", "S", "C", "H", "O", "O", "L">>
SfxLOCATION == <<"_", "L", "O", "C", "A", "T", "I", "O", "N">>
SfxDEGREE == <<"_", "D", "E", "G", "R", "E", "E">>
SfxDATE == <<"_", "D", "A", "T", "E">>
SfxCOURSES == <<"_", "C", "O", "U", "R", "S", "E", "S">>
SfxCOMPANY == <<"_", "C", "O", "M", "P", "A", "N", "Y">>
SfxTITLE == <<"_", "T", "I", "T", "L", "E">>
SfxACHIEVEMENT_ == <<"_", "A", "C", "H", "I", "E", "V", "E", "M", "E", "N", "T", "_">>
SfxACHIEVEMENTS == <<"_", "A", "C", "H", "I", "E", "V", "E", "M", "E", "N", "T", "S">>
SfxNAME == <<"_", "N", "A", "M", "E">>
SfxDESC == <<"_", "D", "E", "S", "C">>
SfxDESC_ == <<"_", "D", "E", "S", "C", "_">>

TokEDU(idx, field) == Tok(PfxEDU \o Dec(idx) \o field)
TokEXP(idx, field) == Tok(PfxEXP \o Dec(idx) \o field)
TokEXP_ACHIEVEMENT(idx, ach_idx) == Tok(PfxEXP \o Dec(idx) \o SfxACHIEVEMENT_ \o Dec(ach_idx))
TokPROJ(idx, field) == Tok(PfxPROJ \o Dec(idx) \o field)
TokPROJ_DESC(idx, desc_idx) == Tok(PfxPROJ \o Dec(idx) \o SfxDESC_ \o Dec(desc_idx))

TokSKILL_LANGUAGE ==
  Tok(<<"S", "K", "I", "L", "L", "_", "L", "A", "N", "G", "U", "A", "G", "E">>)
TokSKILLS_LANGUAGES ==
  Tok(<<"S", "K", "I", "L", "L", "S", "_", "L", "A", "N", "G", "U", "A", "G", "E", "S">>)
TokSKILL_FRAME_TOOL ==
  Tok(<<"S", "K", "I", "L", "L", "_", "F", "R", "A", "M", "E", "_", "T", "O", "O", "L">>)
TokSKILLS_FRAMEWORKS_TOOLS ==
  Tok(<<"S", "K", "I", "L", "L", "S", "_", "F", "R", "A", "M", "E", "W", "O", "R", "K", "S",
        "_", "T", "O", "O", "L", "S">>)
TokSKILLS_LANGUAGE_PROCESSING ==
  Tok(<<"S", "K", "I", "L", "L", "S", "_", "L", "A", "N", "G", "U", "A", "G", "E", "_",
        "P", "R", "O", "C", "E", "S", "S", "I", "N", "G">>)
TokSKILLS_DATA_VIZ ==
  Tok(<<"S", "K", "I", "L", "L", "S", "_", "D", "A", "T", "A", "_", "V", "I", "Z">>)

\* the texts of the items of a list; str.join raises TypeError on an item
\* that is not a string
ItemTexts(items) == [i \in 1..Len(items) |-> IF IsStr(items[i]) THEN items[i].v ELSE <<>>]
JoinRaises(items) == \E i \in 1..Len(items) : ~IsStr(items[i])

\* sep.join(list) as a string value
Joined(sep, lst) == S(JoinText(sep, ItemTexts(lst.v)))

CommaSpace == <<",", " ">>

\* mutant: the start/end pair is used whenever it is given
EntryDate_PairFirst(entry) ==
  IF "start_date" \in DOMAIN entry /\ "end_date" \in DOMAIN entry
  THEN S(Str(entry["start_date"]) \o <<" ", EnDash, " ">> \o Str(entry["end_date"]))
  ELSE Get(entry, "date", Empty)

\* 'date', else start_date + ' – ' + end_date when both are given
EntryDate(entry) ==
  LET date == Get(entry, "date", Empty)
  IN  IF ~Truthy(date) /\ "start_date" \in DOMAIN entry /\ "end_date" \in DOMAIN entry
      THEN S(Str(entry["start_date"]) \o <<" ", EnDash, " ">> \o Str(entry["end_date"]))
      ELSE date

\* mutant: personal = cv_data.get('personal_info', {}) without the presence test
PersonalPairs_Always(cv) ==
  LET personal == IF "personal_info" \in DOMAIN cv
                  THEN cv["personal_info"].v ELSE [k \in {} |-> Empty]
  IN  << <<TokNAME, Get(personal, "name", Empty)>>,
         <<TokName, Get(personal, "name", Empty)>>,
         <<TokLOCATION, Get(personal, "location", Empty)>>,
         <<TokEMAIL, Get(personal, "email", Empty)>>,
         <<TokPHONE, Get(personal, "phone", Empty)>>,
         <<TokGITHUB, Get(personal, "github", Empty)>>,
         <<TokLINKEDIN, Get(personal, "linkedin", Empty)>> >>

PersonalPairs(cv) ==
  IF "personal_info" \in DOMAIN cv
  THEN LET personal == cv["personal_info"].v
       IN  << <<TokNAME, Get(personal, "name", Empty)>>,
              <<TokName, Get(personal, "name", Empty)>>,
              <<TokLOCATION, Get(personal, "location", Empty)>>,
              <<TokEMAIL, Get(personal, "email", Empty)>>,
              <<TokPHONE, Get(personal, "phone", Empty)>>,
              <<TokGITHUB, Get(personal, "github", Empty)>>,
              <<TokLINKEDIN, Get(personal, "linkedin", Empty)>> >>
  ELSE <<>>

\* mutant: the courses are joined by newline
EduCourses_NewlineJoined(edu) ==
  LET courses0 == Get(edu, "courses", Empty)
      courses == IF IsList(courses0) THEN Joined(<<Newline>>, courses0) ELSE courses0
  IN  IF Truthy(courses) THEN courses ELSE Empty

EduCourses(edu) ==
  LET courses0 == Get(edu, "courses", Empty)
      courses == IF IsList(courses0) THEN Joined(CommaSpace, courses0) ELSE courses0
  IN  IF Truthy(courses) THEN courses ELSE Empty

EduPairs(idx, edu) ==
  << <<TokEDU(idx, SfxSCHOOL), Get(edu, "school", Get(edu, "institution", Empty))>>,
     <<TokEDU(idx, SfxLOCATION), Get(edu, "location", Empty)>>,
     <<TokEDU(idx, SfxDEGREE), Get(edu, "degree", Empty)>>,
     <<TokEDU(idx, SfxDATE), EntryDate(edu)>>,
     <<TokEDU(idx, SfxCOURSES), EduCourses(edu)>> >>

EduRaises(edu) ==
  LET courses == Get(edu, "courses", Empty)
  IN  IsList(courses) /\ JoinRaises(courses.v)

\* mutant: enumerate(achievements) without start=1
ExpPairs_ZeroBased(idx, exp) ==
  LET achievements == Get(exp, "achievements", L(<<>>))
  IN  << <<TokEXP(idx, SfxCOMPANY), Get(exp, "company", Empty)>>,
         <<TokEXP(idx, SfxLOCATION), Get(exp, "location", Empty)>>,
         <<TokEXP(idx, SfxTITLE), Get(exp, "title", Empty)>>,
         <<TokEXP(idx, SfxDATE), EntryDate(exp)>> >>
      \o (IF IsList(achievements)
          THEN [ach_idx \in 1..Len(achievements.v) |->
                  <<TokEXP_ACHIEVEMENT(idx, ach_idx - 1), achievements.v[ach_idx]>>]
               \o << <<TokEXP(idx, SfxACHIEVEMENTS), Joined(<<Newline>>, achievements)>> >>
          ELSE <<>>)

ExpPairs(idx, exp) ==
  LET achievements == Get(exp, "achievements", L(<<>>))
  IN  << <<TokEXP(idx, SfxCOMPANY), Get(exp, "company", Empty)>>,
         <<TokEXP(idx, SfxLOCATION), Get(exp, "location", Empty)>>,
         <<TokEXP(idx, SfxTITLE), Get(exp, "title", Empty)>>,
         <<TokEXP(idx, SfxDATE), EntryDate(exp)>> >>
      \o (IF IsList(achievements)
          THEN [ach_idx \in 1..Len(achievements.v) |->
                  <<TokEXP_ACHIEVEMENT(idx, ach_idx), achievements.v[ach_idx]>>]
               \o << <<TokEXP(idx, SfxACHIEVEMENTS), Joined(<<Newline>>, achievements)>> >>
          ELSE <<>>)

ExpRaises(exp) ==
  LET achievements == Get(exp, "achievements", L(<<>>))
  IN  IsList(achievements) /\ JoinRaises(achievements.v)

SkillsPairs(cv) ==
  IF "skills" \in DOMAIN cv /\ IsDict(cv["skills"])
  THEN LET skills == cv["skills"].v
           frameworks_key == IF "frameworks_tools" \in DOMAIN skills
                             THEN "frameworks_tools" ELSE "frameworks_and_tools"
           Text(x) == IF IsList(x) THEN Joined(CommaSpace, x) ELSE x
       IN  (IF "languages" \in DOMAIN skills
            THEN << <<TokSKILL_LANGUAGE, Text(skills["languages"])>>,
                    <<TokSKILLS_LANGUAGES, Text(skills["languages"])>> >>
            ELSE <<>>)
           \o (IF frameworks_key \in DOMAIN skills
               THEN << <<TokSKILL_FRAME_TOOL, Text(skills[frameworks_key])>>,
                       <<TokSKILLS_FRAMEWORKS_TOOLS, Text(skills[frameworks_key])>> >>
               ELSE <<>>)
           \o (IF "language_processing" \in DOMAIN skills
               THEN << <<TokSKILLS_LANGUAGE_PROCESSING, skills["language_processing"]>> >>
               ELSE <<>>)
           \o (IF "data_visualization" \in DOMAIN skills
               THEN << <<TokSKILLS_DATA_VIZ, skills["data_visualization"]>> >>
               ELSE <<>>)
  ELSE <<>>

SkillsRaises(cv) ==
  /\ "skills" \in DOMAIN cv
  /\ IsDict(cv["skills"])
  /\ LET skills == cv["skills"].v
         frameworks_key == IF "frameworks_tools" \in DOMAIN skills
                           THEN "frameworks_tools" ELSE "frameworks_and_tools"
         Bad(key) == /\ key \in DOMAIN skills
                     /\ IsList(skills[key])
                     /\ JoinRaises(skills[key].v)
     IN  Bad("languages") \/ Bad(frameworks_key)

\* descriptions (a list, or a single string wrapped in a list)
ProjDescriptions(proj) ==
  LET descriptions == Get(proj, "descriptions", Get(proj, "description", L(<<>>)))
  IN  IF IsStr(descriptions) THEN L(<<descriptions>>) ELSE descriptions

ProjPairs(idx, proj) ==
  LET descriptions == ProjDescriptions(proj)
  IN  << <<TokPROJ(idx, SfxNAME), Get(proj, "name", Empty)>>,
         <<TokPROJ(idx, SfxDATE), Get(proj, "date", Empty)>> >>
      \o (IF IsList(descriptions)
          THEN [desc_idx \in 1..Len(descriptions.v) |->
                  <<TokPROJ_DESC(idx, desc_idx), descriptions.v[desc_idx]>>]
               \o << <<TokPROJ(idx, SfxDESC),
                       IF Len(descriptions.v) = 1 THEN descriptions.v[1]
                       ELSE Joined(<<Newline>>, descriptions)>> >>
          ELSE <<>>)

ProjRaises(proj) ==
  LET descriptions == ProjDescriptions(proj)
  IN  IsList(descriptions) /\ Len(descriptions.v) # 1 /\ JoinRaises(descriptions.v)

\* the (token, value) assignments of one entry of a list section
PairsOf(key, idx, entry) ==
  CASE key = "education" -> EduPairs(idx, entry)
    [] key = "experience" -> ExpPairs(idx, entry)
    [] key = "projects" -> ProjPairs(idx, entry)

RaisesOf(key, entry) ==
  CASE key = "education" -> EduRaises(entry)
    [] key = "experience" -> ExpRaises(entry)
    [] key = "projects" -> ProjRaises(entry)

\* for idx, entry in enumerate(cv_data[key], start=1), when key is present
SectionPairs(cv, key) ==
  IF key \in DOMAIN cv
  THEN Concat([idx \in 1..Len(cv[key].v) |-> PairsOf(key, idx, cv[key].v[idx].v)])
  ELSE <<>>

SectionRaises(cv, key) ==
  /\ key \in DOMAIN cv
  /\ \E idx \in 1..Len(cv[key].v) : RaisesOf(key, cv[key].v[idx].v)

\* the assignments replacements[token] = value in program order
Assignments(cv) ==
  PersonalPairs(cv)
  \o SectionPairs(cv, "education")
  \o SectionPairs(cv, "experience")
  \o SkillsPairs(cv)
  \o SectionPairs(cv, "projects")

\* the dict after the assignments: a later assignment to a key wins
DictOf(pairs) ==
  [token \in {pairs[i][1] : i \in 1..Len(pairs)} |->
     LET i == CHOOSE i \in 1..Len(pairs) :
                /\ pairs[i][1] = token
                /\ \A j \in (i + 1)..Len(pairs) : pairs[j][1] # token
     IN  pairs[i][2]]

\* does _build_replacements raise (TypeError from str.join)
BuildRaises(cv) ==
  \/ SectionRaises(cv, "education")
  \/ SectionRaises(cv, "experience")
  \/ SkillsRaises(cv)
  \/ SectionRaises(cv, "projects")

\* _build_replacements(cv_data): the PlaceholderMap
BuildReplacements(cv) == DictOf(Assignments(cv))

NoMap == [token \in {} |-> Empty]

----------------------------------------------------------------------------
(* Document model.  A paragraph is the sequence of the child nodes of its  *)
(* w:p element:                                                            *)
(*   [kind |-> "pPr", props]            the paragraph properties block     *)
(*   [kind |-> "run", text, font]       a plain run                        *)
(*   [kind |-> "hyperlink", rid, runs]  a hyperlink; each of its runs is   *)
(*                                      [texts, rPr], texts the w:t nodes  *)
(* A font is [name, size, bold, italic, underline, color]; an attribute    *)
(* that is not set reads as None.                                          *)

NoFont == [name |-> None, size |-> None, bold |-> None, italic |-> None,
           underline |-> None, color |-> None]

Run(text, font) == [kind |-> "run", text |-> text, font |-> font]

\* paragraph.runs / the run and hyperlink children, in document order
IsInline(node) == node.kind \in {"run", "hyperlink"}

\* the text of a hyperlink as paragraph.text renders it: every text node
\* of every run
HyperlinkText(node) ==
  Concat([j \in 1..Len(node.runs) |-> Concat(node.runs[j].texts)])

NodeText(node) ==
  CASE node.kind = "run" -> node.text
    [] node.kind = "hyperlink" -> HyperlinkText(node)
    [] OTHER -> <<>>

\* paragraph.text
ParagraphText(para) == Concat([i \in 1..Len(para) |-> NodeText(para[i])])

\* mutant: full_text.startswith(placeholder) in place of "in"
HasPlaceholder_AtStart(full_text, repl) ==
  \E placeholder \in DOMAIN repl : OccursAt(full_text, placeholder, 0)

\* mutant: any(placeholder for placeholder in replacements.keys())
HasPlaceholder_AnyKey(full_text, repl) == DOMAIN repl # {}

\* any(placeholder in full_text for placeholder in replacements.keys())
HasPlaceholder(full_text, repl) ==
  \E placeholder \in DOMAIN repl : Contains(full_text, placeholder)

\* the first non-empty w:t of a run inside a hyperlink ("Only take first
\* text element per run")
FirstText(texts) ==
  IF \E i \in 1..Len(texts) : texts[i] # <<>>
  THEN texts[CHOOSE i \in 1..Len(texts) :
               /\ texts[i] # <<>>
               /\ \A j \in 1..(i - 1) : texts[j] = <<>>]
  ELSE <<>>

\* hyperlink_display_text
HyperlinkDisplayText(node) ==
  Concat([j \in 1..Len(node.runs) |-> FirstText(node.runs[j].texts)])

\* elements: the (element, type, text) tuples of the runs and hyperlinks
Elements(para) ==
  LET inline == SelectSeq(para, IsInline)
  IN  [i \in 1..Len(inline) |->
         [elem |-> inline[i],
          type |-> inline[i].kind,
          text |-> IF inline[i].kind = "run" THEN inline[i].text
                   ELSE HyperlinkDisplayText(inline[i])]]

\* char_map: one (element index, type, offset) slot per character of each
\* element's text; element indices are 0-based as in the code
CharMap(elements) ==
  Concat([i \in 1..Len(elements) |->
            [char_offset \in 1..Len(elements[i].text) |->
               <<i - 1, elements[i].type, char_offset - 1>>]])

\* replacements_to_apply: (pos, placeholder) for every token found
ReplacementsToApply(full_text, repl) ==
  {<<Find(full_text, placeholder), placeholder>> :
     placeholder \in {k \in DOMAIN repl : Contains(full_text, k)}}

\* replacements_to_apply.sort()[0]: the lowest position.  Two tokens of
\* the map never start at the same offset (no key is a prefix of another).
FirstReplacement(to_apply) ==
  CHOOSE m \in to_apply : \A o \in to_apply : m[1] <= o[1]

\* mutant: only {{GITHUB}} is treated as a hyperlink placeholder
IsHyperlinkPlaceholder_GithubOnly(placeholder) == placeholder = TokGITHUB

\* placeholder in ['{{GITHUB}}', '{{LINKEDIN}}']
IsHyperlinkPlaceholder(placeholder) == placeholder \in {TokGITHUB, TokLINKEDIN}

----------------------------------------------------------------------------
(* DOCXFiller._add_hyperlink                                               *)

HTTP == <<"h", "t", "t", "p", ":", "/", "/">>
HTTPS == <<"h", "t", "t", "p", "s", ":", "/", "/">>

\* mutant: the URL is used as given
NormalizeUrl_AsGiven(url) == url

\* "Ensure URL has protocol"
NormalizeUrl(url) ==
  IF ~StartsWith(url, HTTP) /\ ~StartsWith(url, HTTPS) THEN HTTPS \o url ELSE url

\* part.relate_to(url, ..., is_external=True): the relationship id of the
\* external relationship to url, added to the part when it has none yet
RelateTo(part_rels, url) ==
  IF \E i \in 1..Len(part_rels) : part_rels[i] = url
  THEN [r_id |-> CHOOSE i \in 1..Len(part_rels) :
                   /\ part_rels[i] = url
                   /\ \A j \in 1..(i - 1) : part_rels[j] # url,
        rels |-> part_rels]
  ELSE [r_id |-> Len(part_rels) + 1, rels |-> Append(part_rels, url)]

\* str(run_template.font.size.pt * 2): size.pt is a float, so is the product
SzVal(size) == S(Dec(2 * size.v) \o <<".", "0">>)

LinkColor == S(<<"0", "5", "6", "3", "C", "1">>)
LinkUnderline == S(<<"s", "i", "n", "g", "l", "e">>)

\* the run properties of the new hyperlink's run
HyperlinkRPr(run_template) ==
  [ascii |-> IF Truthy(run_template.font.name) THEN run_template.font.name ELSE None,
   sz |-> IF Truthy(run_template.font.size) THEN SzVal(run_template.font.size) ELSE None,
   color |-> LinkColor,
   u |-> LinkUnderline]

\* the w:hyperlink element appended to the paragraph
HyperlinkElement(r_id, text, run_template) ==
  [kind |-> "hyperlink", rid |-> r_id,
   runs |-> << [texts |-> <<text>>, rPr |-> HyperlinkRPr(run_template)] >>]

----------------------------------------------------------------------------
(* DOCXFiller._replace_in_paragraph: one pass over one paragraph           *)

TextItem(text, source_run) == [tag |-> "text", text |-> text, source |-> source_run]
ExistingItem(elem) == [tag |-> "existing_hyperlink", elem |-> elem]

\* mutant: only runs are re-emitted, hyperlinks are skipped
RECURSIVE WholeElements_RunsOnly(_, _, _)
WholeElements_RunsOnly(elements, lo, hi) ==
  IF lo > hi THEN <<>>
  ELSE (IF elements[lo].type = "run" /\ elements[lo].text # <<>>
        THEN <<TextItem(elements[lo].text, elements[lo].elem)>> ELSE <<>>)
       \o WholeElements_RunsOnly(elements, lo + 1, hi)

\* "Elements before the placeholder" / "Elements after the placeholder":
\* elements[lo..hi] (1-based), runs with text re-emitted, hyperlinks kept
RECURSIVE WholeElements(_, _, _)
WholeElements(elements, lo, hi) ==
  IF lo > hi THEN <<>>
  ELSE (IF elements[lo].type = "run"
        THEN (IF elements[lo].text # <<>>
              THEN <<TextItem(elements[lo].text, elements[lo].elem)>> ELSE <<>>)
        ELSE <<ExistingItem(elements[lo].elem)>>)
       \o WholeElements(elements, lo + 1, hi)

\* "Text before placeholder in the start element"
TextBefore(elements, start_elem_idx, start_offset) ==
  LET start == elements[start_elem_idx + 1]
      text_before == Slice(start.elem.text, 0, start_offset)
  IN  IF start.type = "run" /\ text_before # <<>>
      THEN <<TextItem(text_before, start.elem)>> ELSE <<>>

\* sum(len(elements[i][2]) for i in range(end_elem_idx))
RECURSIVE CharsBefore(_, _)
CharsBefore(elements, end_elem_idx) ==
  IF end_elem_idx = 0 THEN 0
  ELSE Len(elements[end_elem_idx].text) + CharsBefore(elements, end_elem_idx - 1)

\* "Text after placeholder in the end element"
TextAfter(elements, end_elem_idx, placeholder_end) ==
  IF end_elem_idx < Len(elements) /\ elements[end_elem_idx + 1].type = "run"
  THEN LET end == elements[end_elem_idx + 1]
           end_offset == placeholder_end - CharsBefore(elements, end_elem_idx)
           text_after == SliceFrom(end.elem.text, end_offset)
       IN  IF text_after # <<>> THEN <<TextItem(text_after, end.elem)>> ELSE <<>>
  ELSE <<>>

\* new_content: before + leading text + replacement + trailing text + after
NewContent(elements, start_elem_idx, start_offset, end_elem_idx, placeholder_end, item) ==
  WholeElements(elements, 1, start_elem_idx)
  \o TextBefore(elements, start_elem_idx, start_offset)
  \o <<item>>
  \o TextAfter(elements, end_elem_idx, placeholder_end)
  \o WholeElements(elements, end_elem_idx + 2, Len(elements))

\* the first plain run among the elements, if any
HasRun(elements) == \E i \in 1..Len(elements) : elements[i].type = "run"
FirstRun(elements) ==
  elements[CHOOSE i \in 1..Len(elements) :
             /\ elements[i].type = "run"
             /\ \A j \in 1..(i - 1) : elements[j].type # "run"].elem

\* mutant: the match is taken to end in the element where it starts
EndElemIdx_StartOnly(char_map, start_elem_idx, placeholder_end) == start_elem_idx

\* the element index of the last character of the match; the start element
\* when the index is too short to hold it
EndElemIdx(char_map, start_elem_idx, placeholder_end) ==
  IF placeholder_end - 1 < Len(char_map)
  THEN char_map[placeholder_end][1] ELSE start_elem_idx

\* mutant: every child removed, pPr included, and nothing put back
ClearKeepingPPr_All(para) == <<>>

\* deepcopy(pPr), clear every child but pPr, put the saved copy back first
ClearKeepingPPr(para) ==
  LET kept == SelectSeq(para, LAMBDA node : node.kind = "pPr")
  IN  IF kept # <<>> THEN <<kept[1]>> \o Tail(kept) ELSE <<>>

\* mutant: underline and color not copied
CopyFontPlain_FourAttributes(source) ==
  [name |-> source.font.name, size |-> source.font.size,
   bold |-> source.font.bold, italic |-> source.font.italic,
   underline |-> None, color |-> None]

\* the font of a run re-emitted on the plain-text route: six attributes
\* copied (the color only when the source has an rgb color)
CopyFontPlain(source) ==
  [name |-> source.font.name, size |-> source.font.size,
   bold |-> source.font.bold, italic |-> source.font.italic,
   underline |-> source.font.underline,
   color |-> IF Truthy(source.font.color) THEN source.font.color ELSE None]

\* the font of a run re-emitted on the hyperlink route: name, size, bold
\* and italic copied
CopyFontHyperlink(source) ==
  [name |-> source.font.name, size |-> source.font.size,
   bold |-> source.font.bold, italic |-> source.font.italic,
   underline |-> None, color |-> None]

\* "Rebuild paragraph with all elements" for the text and
\* existing_hyperlink items
Emit(items, route) ==
  [i \in 1..Len(items) |->
     IF items[i].tag = "text"
     THEN Run(items[i].text, IF route = "plain" THEN CopyFontPlain(items[i].source)
                             ELSE CopyFontHyperlink(items[i].source))
     ELSE items[i].elem]

\* the outcome of a pass
PassResult(para, part_rels, raised, resolved, route, pos, placeholder) ==
  [para |-> para, rels |-> part_rels, raised |-> raised, resolved |-> resolved,
   route |-> route, pos |-> pos, placeholder |-> placeholder]

\* mutant: before returning, an empty run is added to the paragraph to
\* serve as template run
NoOp_RunAdded(para, part_rels, route, pos, placeholder) ==
  PassResult(para \o <<Run(<<>>, NoFont)>>, part_rels, FALSE, FALSE, route, pos,
             placeholder)

\* mutant: the return comes after paragraph_element.clear()
NoOp_AfterClear(para, part_rels, route, pos, placeholder) ==
  PassResult(ClearKeepingPPr(para), part_rels, FALSE, FALSE, route, pos, placeholder)

\* a pass that returns without mutating the paragraph
NoOp(para, part_rels, route, pos, placeholder) ==
  PassResult(para, part_rels, FALSE, FALSE, route, pos, placeholder)

\* the hyperlink route ("Handle hyperlink specially")
HyperlinkRoute(para, cv, part_rels, elements, char_map, pos, placeholder) ==
  IF pos >= Len(char_map) THEN NoOp(para, part_rels, "hyperlink", pos, placeholder)
  ELSE
  LET start_elem_idx == char_map[pos + 1][1]
      start_offset == char_map[pos + 1][3]
      placeholder_end == pos + Len(placeholder)
      end_elem_idx == EndElemIdx(char_map, start_elem_idx, placeholder_end)
  IN  IF ~HasRun(elements) THEN NoOp(para, part_rels, "hyperlink", pos, placeholder)
      ELSE
      LET template_run == FirstRun(elements)
          personal_info == IF "personal_info" \in DOMAIN cv
                           THEN cv["personal_info"].v ELSE [k \in {} |-> Empty]
          url == IF placeholder = TokGITHUB
                 THEN Get(personal_info, "github", Empty)
                 ELSE Get(personal_info, "linkedin", Empty)
          display_text == IF placeholder = TokGITHUB
                          THEN <<"G", "i", "t", "h", "u", "b">>
                          ELSE <<"L", "i", "n", "k", "e", "d", "i", "n">>
          before == WholeElements(elements, 1, start_elem_idx)
                    \o TextBefore(elements, start_elem_idx, start_offset)
          after == TextAfter(elements, end_elem_idx, placeholder_end)
                   \o WholeElements(elements, end_elem_idx + 2, Len(elements))
          cleared == ClearKeepingPPr(para)
      IN  IF ~IsStr(url)
          \* url.startswith raises AttributeError inside _add_hyperlink, after
          \* the paragraph was cleared and the items before it re-emitted
          THEN PassResult(cleared \o Emit(before, "hyperlink"), part_rels,
                          TRUE, FALSE, "hyperlink", pos, placeholder)
          ELSE LET rel == RelateTo(part_rels, NormalizeUrl(url.v))
               IN  PassResult(cleared
                                \o Emit(before, "hyperlink")
                                \o <<HyperlinkElement(rel.r_id, display_text, template_run)>>
                                \o Emit(after, "hyperlink"),
                              rel.rels, FALSE, TRUE, "hyperlink", pos, placeholder)

\* the plain-text route
PlainRoute(para, part_rels, elements, char_map, pos, placeholder, value) ==
  IF pos >= Len(char_map) THEN NoOp(para, part_rels, "plain", pos, placeholder)
  ELSE
  LET placeholder_end == pos + Len(placeholder)
      start_elem_idx == char_map[pos + 1][1]
      start_elem_type == char_map[pos + 1][2]
      start_offset == char_map[pos + 1][3]
      end_elem_idx == EndElemIdx(char_map, start_elem_idx, placeholder_end)
  IN  IF start_elem_type # "run" /\ ~HasRun(elements)
      THEN NoOp(para, part_rels, "plain", pos, placeholder)
      ELSE
      LET template_run == IF start_elem_type = "run"
                          THEN elements[start_elem_idx + 1].elem
                          ELSE FirstRun(elements)
          new_content == NewContent(elements, start_elem_idx, start_offset,
                                    end_elem_idx, placeholder_end,
                                    TextItem(Str(value), template_run))
      IN  PassResult(ClearKeepingPPr(para) \o Emit(new_content, "plain"),
                     part_rels, FALSE, TRUE, "plain", pos, placeholder)

\* _replace_in_paragraph(paragraph, replacements, cv_data)
ReplaceInParagraph(para, repl, cv, part_rels) ==
  LET full_text == ParagraphText(para)
      elements == Elements(para)
  IN  IF ~HasPlaceholder(full_text, repl) \/ elements = <<>>
      THEN NoOp(para, part_rels, "none", -1, <<>>)
      ELSE
      LET replacements_to_apply == ReplacementsToApply(full_text, repl)
          first == FirstReplacement(replacements_to_apply)
          pos == first[1]
          placeholder == first[2]
          char_map == CharMap(elements)
      IN  IF replacements_to_apply = {}
          THEN NoOp(para, part_rels, "none", -1, <<>>)
          ELSE IF IsHyperlinkPlaceholder(placeholder) /\ DOMAIN cv # {}
          THEN HyperlinkRoute(para, cv, part_rels, elements, char_map, pos, placeholder)
          ELSE PlainRoute(para, part_rels, elements, char_map, pos, placeholder,
                          repl[placeholder])

----------------------------------------------------------------------------
(* DOCXFiller.fill_template: the state machine                            *)
(*   cv_data       the profile record passed to fill_template              *)
(*   replacements  the PlaceholderMap built by _build_replacements         *)
(*   template      the document as loaded by Document(template_path)       *)
(*   doc           the document in memory: doc.body the body paragraphs,   *)
(*                 doc.cells the paragraphs of the table cells in visiting *)
(*                 order, doc.header the paragraphs of the header part     *)
(*   rels          the targets of the part's external relationships        *)
(*   pc            "idle", "body" (first loop), "cells" (second loop),     *)
(*                 "done" (saved) or "raised" (an exception escaped)       *)
(*   para_idx      the paragraph the running loop is at                    *)
(*   iteration     passes of the inner loop made on that paragraph         *)
(*   calls         calls of _replace_in_paragraph per paragraph, this fill *)
(*   fills         how many times fill_template was started                *)
(*   last          the last pass: paragraph before it and its outcome      *)

\* mutant: the cap off by one
max_iterations_OffByOne == 20 + 1

max_iterations == 20

MaxFills == 2

NoLast == [part |-> "none", idx |-> 0, before |-> <<>>, rels |-> <<>>,
           resolved |-> FALSE, raised |-> FALSE, route |-> "none",
           pos |-> -1, placeholder |-> <<>>, value |-> None]

\* JobCVCrew before customize_cv_for_job: no pipeline output yet, nothing
\* cleaned, no warning printed, no file written
NoCrew == [output |-> <<>>, safe_load |-> "none", customized_cv |-> None,
           warned |-> FALSE, file |-> None]

ZeroCalls(d) == [body |-> [i \in 1..Len(d.body) |-> 0],
                 cells |-> [i \in 1..Len(d.cells) |-> 0]]

\* Document(template_path), _build_replacements(cv_data); the output of a
\* fill can be given to a later fill as its template
FillTemplate ==
  /\ pc \in {"idle", "done"}
  /\ fills < MaxFills
  /\ fills' = fills + 1
  /\ template' = doc
  /\ calls' = ZeroCalls(doc)
  /\ para_idx' = 1
  /\ iteration' = 0
  /\ IF BuildRaises(cv_data)
     THEN /\ pc' = "raised"
          /\ UNCHANGED replacements
     ELSE /\ pc' = "body"
          /\ replacements' = BuildReplacements(cv_data)
  /\ UNCHANGED <<cv_data, doc, rels, last, crew>>

\* one iteration of the inner loop that finds a placeholder and calls
\* _replace_in_paragraph
Pass(part) ==
  /\ pc = part
  /\ para_idx <= Len(doc[part])
  /\ iteration < max_iterations
  /\ HasPlaceholder(ParagraphText(doc[part][para_idx]), replacements) = TRUE
  /\ LET para == doc[part][para_idx]
         r == ReplaceInParagraph(para, replacements, cv_data, rels)
     IN  /\ doc' = [doc EXCEPT ![part][para_idx] = r.para]
         /\ rels' = r.rels
         /\ pc' = IF r.raised THEN "raised" ELSE pc
         /\ last' = [part |-> part, idx |-> para_idx, before |-> para, rels |-> rels,
                     resolved |-> r.resolved, raised |-> r.raised, route |-> r.route,
                     pos |-> r.pos, placeholder |-> r.placeholder,
                     value |-> IF r.placeholder \in DOMAIN replacements
                               THEN replacements[r.placeholder] ELSE None]
  /\ iteration' = iteration + 1
  /\ calls' = [calls EXCEPT ![part][para_idx] = @ + 1]
  /\ UNCHANGED <<cv_data, replacements, template, para_idx, fills, crew>>

\* mutant: the inner loop also ends after a pass that found a placeholder
NextParagraph_BreaksAfterPass(part, then) ==
  /\ pc = part
  /\ IF para_idx > Len(doc[part]) \/ iteration >= 1
     THEN TRUE
     ELSE ~HasPlaceholder(ParagraphText(doc[part][para_idx]), replacements)
  /\ iteration' = 0
  /\ IF para_idx < Len(doc[part])
     THEN /\ para_idx' = para_idx + 1
          /\ pc' = pc
     ELSE /\ para_idx' = 1
          /\ pc' = then
  /\ UNCHANGED <<cv_data, replacements, template, doc, rels, calls, fills, last, crew>>

\* the inner loop ends (break, or max_iterations passes made): on to the
\* next paragraph, the next loop, or doc.save
NextParagraph(part, then) ==
  /\ pc = part
  /\ IF para_idx > Len(doc[part]) \/ iteration = max_iterations
     THEN TRUE
     ELSE ~HasPlaceholder(ParagraphText(doc[part][para_idx]), replacements)
  /\ iteration' = 0
  /\ IF para_idx < Len(doc[part])
     THEN /\ para_idx' = para_idx + 1
          /\ pc' = pc
     ELSE /\ para_idx' = 1
          /\ pc' = then
  /\ UNCHANGED <<cv_data, replacements, template, doc, rels, calls, fills, last, crew>>

\* mutant: the passes of the table loop run over the header's paragraph
CellPass_OverHeader ==
  /\ pc = "cells"
  /\ iteration < max_iterations
  /\ HasPlaceholder(ParagraphText(doc.header[1]), replacements)
  /\ LET r == ReplaceInParagraph(doc.header[1], replacements, cv_data, rels)
     IN  /\ doc' = [doc EXCEPT !.header[1] = r.para]
         /\ rels' = r.rels
  /\ iteration' = iteration + 1
  /\ UNCHANGED <<cv_data, replacements, template, pc, para_idx, calls, fills, last, crew>>

BodyPass == Pass("body")
BodyNext == NextParagraph("body", "cells")
CellPass == Pass("cells")
CellNext == NextParagraph("cells", "done")

Next == FillTemplate \/ BodyPass \/ BodyNext \/ CellPass \/ CellNext

----------------------------------------------------------------------------
(* Initial states: a profile record and a template document                *)

MaxCuts == 2
MaxHyperlinks == 2

FontA == [name |-> S(<<"A", "r", "i", "a", "l">>), size |-> I(11), bold |-> B(TRUE),
          italic |-> None, underline |-> None, color |-> None]
FontB == [name |-> None, size |-> None, bold |-> None,
          italic |-> B(TRUE), underline |-> B(TRUE),
          color |-> S(<<"F", "F", "0", "0", "0", "0">>)]
Fonts == <<FontA, FontB>>

PPr == [kind |-> "pPr",
        props |-> [jc |-> "center", pStyle |-> "Heading1", numPr |-> "numId=1"]]

Jo == <<"J", "o">>

\* the empty mapping (a YAML document "{}")
Profile0 == [k \in {} |-> Empty]

\* name and a github handle without scheme; linkedin, phone, location absent
Profile1 ==
  [personal_info |-> D([name |-> S(Jo),
                        github |-> S(<<"j", "d", "o", "e">>),
                        email |-> S(<<>>)])]
\* a name that is itself a token of the map; a github URL with its scheme
Profile2 ==
  [personal_info |-> D([name |-> S(TokNAME),
                        github |-> S(HTTPS \o <<"g">>),
                        email |-> S(<<"e">>)])]
\* YAML keys without a value load as None
Profile3 ==
  [personal_info |-> D([name |-> None, github |-> None])]
\* two education entries and no personal_info
Profile4 ==
  [education |-> L(<< D([school |-> S(<<"M", "I", "T">>)]),
                      D([institution |-> S(<<"E", "T", "H">>)]) >>)]

\* an empty github field and no linkedin field
Profile5 ==
  [personal_info |-> D([name |-> S(Jo), github |-> S(<<>>)])]

\* a marker of token shape that the map of no profile above holds
TokUnknown == TokEDU(3, SfxSCHOOL)

\* the template texts, each with the profile it is filled from and the
\* offsets at which the text may be cut into elements
Scenarios ==
  { [cv |-> Profile0, text |-> TokGITHUB \o TokNAME, cuts |-> {5, 10}],
    [cv |-> Profile1, text |-> <<"a">> \o TokNAME \o <<"b">>, cuts |-> 0..10],
    [cv |-> Profile1, text |-> <<"P", ":">> \o TokGITHUB \o <<"b">>,
     cuts |-> {0, 2, 4, 7, 12, 13}],
    [cv |-> Profile1, text |-> TokNAME \o TokEMAIL, cuts |-> {3, 8, 12}],
    [cv |-> Profile1, text |-> TokNAME \o TokNAME, cuts |-> {5, 8}],
    [cv |-> Profile1, text |-> TokLINKEDIN \o TokNAME, cuts |-> {6, 12}],
    [cv |-> Profile1, text |-> <<"{", "{", "N", "A">> \o TokEMAIL \o <<"M", "E", "}", "}">>,
     cuts |-> {4, 13}],
    [cv |-> Profile1, text |-> TokUnknown \o TokNAME, cuts |-> {8, 16}],
    [cv |-> Profile1, text |-> <<"a", "b">>, cuts |-> {1}],
    [cv |-> Profile2, text |-> <<"a">> \o TokNAME, cuts |-> {1, 5}],
    [cv |-> Profile2, text |-> TokGITHUB \o TokEMAIL, cuts |-> {5, 10}],
    [cv |-> Profile3, text |-> TokNAME \o TokGITHUB, cuts |-> {4, 8}],
    [cv |-> Profile4, text |-> TokEDU(2, SfxSCHOOL) \o TokUnknown, cuts |-> {16}],
    [cv |-> Profile5, text |-> TokGITHUB \o TokLINKEDIN, cuts |-> {5}] }

\* the cut offsets in increasing order
RECURSIVE SortedCuts(_)
SortedCuts(cuts) ==
  IF cuts = {} THEN <<>>
  ELSE LET lo == CHOOSE c \in cuts : \A d \in cuts : c <= d
       IN  <<lo>> \o SortedCuts(cuts \ {lo})

\* the pieces of text between the cut offsets
Pieces(text, cuts) ==
  LET bounds == <<0>> \o SortedCuts(cuts) \o <<Len(text)>>
  IN  [i \in 1..(Len(bounds) - 1) |-> Slice(text, bounds[i], bounds[i + 1])]

\* an inline element of the template holding the piece
TemplateElement(kind, text, i) ==
  CASE kind = "run" -> Run(text, Fonts[((i - 1) % 2) + 1])
    [] kind = "hyperlink" ->
         [kind |-> "hyperlink", rid |-> 1,
          runs |-> << [texts |-> <<text>>, rPr |-> NoFont] >>]
    [] OTHER ->
         [kind |-> "hyperlink", rid |-> 1,
          runs |-> << [texts |-> <<Slice(text, 0, 1), SliceFrom(text, 1)>>,
                       rPr |-> NoFont] >>]

\* the element kinds of the templates: plain runs and hyperlinks whose run
\* holds one text node
ElementKinds == {"run", "hyperlink"}

\* the paragraphs a scenario's text can be cut into
TemplateParagraphs(sc) ==
  UNION { { [i \in 1..(Cardinality(cuts) + 1) |->
               TemplateElement(kinds[i], Pieces(sc.text, cuts)[i], i)] :
            kinds \in { k \in [1..(Cardinality(cuts) + 1) -> ElementKinds] :
                        Cardinality({i \in DOMAIN k : k[i] # "run"}) <= MaxHyperlinks } } :
          cuts \in { c \in SUBSET sc.cuts : Cardinality(c) <= MaxCuts } }

HeaderParagraph == <<Run(TokNAME, FontA)>>

TemplateRels == << HTTPS \o <<"t">> >>

Init ==
  /\ \E sc \in Scenarios :
       /\ cv_data = sc.cv
       /\ \E para \in TemplateParagraphs(sc), ppr \in {<<>>, <<PPr>>}, part \in {"body", "cells"} :
            doc = [body |-> IF part = "body" THEN <<ppr \o para>> ELSE <<>>,
                   cells |-> IF part = "cells" THEN <<ppr \o para>> ELSE <<>>,
                   header |-> <<HeaderParagraph>>]
  /\ template = doc
  /\ replacements = NoMap
  /\ rels = TemplateRels
  /\ pc = "idle"
  /\ para_idx = 1
  /\ iteration = 0
  /\ calls = ZeroCalls(doc)
  /\ fills = 0
  /\ last = NoLast
  /\ crew = NoCrew

Spec == Init /\ [][Next]_vars

----------------------------------------------------------------------------
(* fill_template over templates whose hyperlinks may hold two text nodes   *)
(* in one run (a w:t, then a second w:t after it)                          *)

\* the element kinds of these templates: "hyperlink2" is a hyperlink whose
\* run holds the first character of its piece in one w:t and the rest in a
\* second w:t
IndexKinds == {"run", "hyperlink", "hyperlink2"}

IndexScenarios ==
  { [cv |-> Profile1, text |-> <<"a", "b">> \o TokNAME, cuts |-> {0, 2, 5}],
    [cv |-> Profile1, text |-> <<"a", "b">> \o TokGITHUB, cuts |-> {0, 2, 6}],
    [cv |-> Profile1, text |-> TokNAME \o <<"a", "b">> \o TokEMAIL, cuts |-> {8, 10}] }

\* the paragraphs a scenario's text can be cut into
IndexParagraphs(sc) ==
  UNION { { [i \in 1..(Cardinality(cuts) + 1) |->
               TemplateElement(kinds[i], Pieces(sc.text, cuts)[i], i)] :
            kinds \in { k \in [1..(Cardinality(cuts) + 1) -> IndexKinds] :
                        Cardinality({i \in DOMAIN k : k[i] # "run"}) <= MaxHyperlinks } } :
          cuts \in { c \in SUBSET sc.cuts : Cardinality(c) <= MaxCuts } }

InitIndex ==
  /\ \E sc \in IndexScenarios :
       /\ cv_data = sc.cv
       /\ \E para \in IndexParagraphs(sc), part \in {"body", "cells"} :
            doc = [body |-> IF part = "body" THEN <<para>> ELSE <<>>,
                   cells |-> IF part = "cells" THEN <<para>> ELSE <<>>,
                   header |-> <<HeaderParagraph>>]
  /\ template = doc
  /\ replacements = NoMap
  /\ rels = TemplateRels
  /\ pc = "idle"
  /\ para_idx = 1
  /\ iteration = 0
  /\ calls = ZeroCalls(doc)
  /\ fills = 0
  /\ last = NoLast
  /\ crew = NoCrew

SpecIndex == InitIndex /\ [][Next]_vars

----------------------------------------------------------------------------
(* fill_template over a paragraph that holds more distinct tokens than the *)
(* inner loop has passes                                                   *)

\* personal_info, three education entries and one experience entry
ProfileCap ==
  [personal_info |-> D([name |-> S(Jo), github |-> S(<<"j", "d", "o", "e">>)]),
   education |-> L(<< D([school |-> S(<<"M">>)]),
                      D([school |-> S(<<"E">>)]),
                      D([school |-> S(<<"H">>)]) >>),
   experience |-> L(<< D([title |-> S(<<"T">>)]) >>)]

EduFields == <<SfxSCHOOL, SfxLOCATION, SfxDEGREE, SfxDATE, SfxCOURSES>>

\* twenty-one distinct tokens of the map of ProfileCap, none of them a
\* hyperlink token
CapTokens ==
  <<TokNAME, TokName, TokEMAIL, TokPHONE, TokLOCATION>>
    \o [i \in 1..15 |-> TokEDU(((i - 1) \div 5) + 1, EduFields[((i - 1) % 5) + 1])]
    \o <<TokEXP(1, SfxTITLE)>>

\* the paragraph text, whole or cut inside its first token
CapScenarios ==
  { [cv |-> ProfileCap, text |-> Concat(CapTokens), cuts |-> {3}] }

InitCap ==
  /\ \E sc \in CapScenarios :
       /\ cv_data = sc.cv
       /\ \E para \in TemplateParagraphs(sc), part \in {"body", "cells"} :
            doc = [body |-> IF part = "body" THEN <<para>> ELSE <<>>,
                   cells |-> IF part = "cells" THEN <<para>> ELSE <<>>,
                   header |-> <<HeaderParagraph>>]
  /\ template = doc
  /\ replacements = NoMap
  /\ rels = TemplateRels
  /\ pc = "idle"
  /\ para_idx = 1
  /\ iteration = 0
  /\ calls = ZeroCalls(doc)
  /\ fills = 0
  /\ last = NoLast
  /\ crew = NoCrew

SpecCap == InitCap /\ [][Next]_vars

----------------------------------------------------------------------------
(* _build_replacements on its own: a profile record is flattened           *)

MaxEntries == 2
MaxItems == 2

SeqsUpTo(set, n) == UNION { [1..m -> set] : m \in 0..n }

\* achievements: lists of strings, a list with an item that is no string,
\* and a single string in place of the list
AchItems == {S(<<"x">>), S(<<"y", "z">>)}
AchValues ==
  {L(a) : a \in SeqsUpTo(AchItems, MaxItems)}
    \cup {L(<<S(<<"x">>), I(3)>>), S(<<"x">>)}

ExpEntries ==
  {D([company |-> c, achievements |-> a]) :
     c \in {S(<<"A">>), S(<<"B">>)}, a \in AchValues}
    \cup {D([company |-> S(<<"A">>)])}

EduEntries == {D([school |-> S(<<"M">>)]), D([institution |-> S(<<"E">>)])}

ProjEntries ==
  {D([name |-> S(<<"p">>)]),
   D([name |-> S(<<"q">>), descriptions |-> L(<<S(<<"d">>)>>)])}

FlatProfiles ==
  {[experience |-> L(e)] : e \in SeqsUpTo(ExpEntries, MaxEntries)}
    \cup {[education |-> L(ed), experience |-> L(<<x>>), projects |-> L(pr)] :
            ed \in SeqsUpTo(EduEntries, MaxEntries),
            x \in {D([company |-> S(<<"A">>)])},
            pr \in SeqsUpTo(ProjEntries, MaxEntries)}

\* the shapes in which an education or experience entry gives its date
DateShapes ==
  {[date |-> S(<<"d">>)],
   [start_date |-> S(<<"a">>), end_date |-> S(<<"b">>)],
   [date |-> S(<<"d">>), start_date |-> S(<<"a">>), end_date |-> S(<<"b">>)],
   [start_date |-> S(<<"a">>)],
   [end_date |-> S(<<"b">>)],
   [k \in {} |-> Empty],
   [date |-> S(<<>>), start_date |-> S(<<"a">>), end_date |-> S(<<"b">>)],
   [date |-> S(<<>>), end_date |-> S(<<"b">>)],
   [start_date |-> I(7), end_date |-> I(8)],
   [date |-> None, start_date |-> S(<<"a">>), end_date |-> S(<<"b">>)]}

DateProfiles ==
  {[education |-> L(<<D(a)>>), experience |-> L(<<D(b), D(a)>>)] :
     a \in DateShapes, b \in DateShapes}

\* courses, skills and descriptions: a list, a string, or nothing
TextItems == {S(<<"p">>), S(<<"q", "r">>)}
TextLists == {L(a) : a \in SeqsUpTo(TextItems, MaxItems)}

CourseEntries ==
  {D([school |-> S(<<"M">>), courses |-> c]) : c \in TextLists \cup {S(<<"p">>), None}}
    \cup {D([school |-> S(<<"M">>)])}

SkillsValues ==
  {D([languages |-> a, frameworks_tools |-> b]) : a \in TextLists, b \in {L(<<S(<<"f">>)>>)}}
    \cup {D([languages |-> S(<<"p">>), frameworks_and_tools |-> b]) : b \in TextLists}
    \cup {D([language_processing |-> S(<<"n">>), data_visualization |-> S(<<"v">>)]),
          D([frameworks_and_tools |-> L(<<S(<<"f">>)>>),
             frameworks_tools |-> L(<<S(<<"g">>)>>)]),
          D([k \in {} |-> Empty]),
          L(<<S(<<"p">>)>>)}

DescEntries ==
  {D([name |-> S(<<"n">>), descriptions |-> d]) : d \in TextLists \cup {S(<<"p">>), None}}
    \cup {D([name |-> S(<<"n">>), description |-> S(<<"q", "r">>)]),
          D([date |-> S(<<"d">>)])}

PersonalValues ==
  {D([name |-> S(Jo), location |-> S(<<"l">>), email |-> S(<<"e">>),
      phone |-> S(<<"1">>), github |-> S(<<"g">>), linkedin |-> S(<<"i">>)]),
   D([name |-> S(Jo)]),
   D([k \in {} |-> Empty])}

\* a record with all five sections, and its restrictions to every subset
FullProfile ==
  [personal_info |-> D([name |-> S(Jo)]),
   education |-> L(<<D([school |-> S(<<"M">>)])>>),
   experience |-> L(<<D([company |-> S(<<"A">>)])>>),
   skills |-> D([languages |-> L(<<S(<<"p">>)>>)]),
   projects |-> L(<<D([name |-> S(<<"n">>)])>>)]

SectionKeys == {"personal_info", "education", "experience", "skills", "projects"}

SectionProfiles ==
  {[key \in keys |-> FullProfile[key]] : keys \in SUBSET SectionKeys}
    \cup {[personal_info |-> x] : x \in PersonalValues}
    \cup {[skills |-> x] : x \in SkillsValues}
    \cup {[education |-> L(<<x>>)] : x \in CourseEntries}
    \cup {[projects |-> L(<<D([name |-> S(<<"m">>)]), x>>)] : x \in DescEntries}
    \cup DateProfiles

InitFlat ==
  /\ cv_data \in FlatProfiles \cup SectionProfiles
  /\ doc = [body |-> <<>>, cells |-> <<>>, header |-> <<>>]
  /\ template = doc
  /\ replacements = NoMap
  /\ rels = <<>>
  /\ pc = "idle"
  /\ para_idx = 1
  /\ iteration = 0
  /\ calls = ZeroCalls(doc)
  /\ fills = 0
  /\ last = NoLast
  /\ crew = NoCrew

\* replacements = DOCXFiller._build_replacements(cv_data)
Flatten ==
  /\ pc = "idle"
  /\ IF BuildRaises(cv_data)
     THEN /\ pc' = "raised"
          /\ UNCHANGED replacements
     ELSE /\ pc' = "built"
          /\ replacements' = BuildReplacements(cv_data)
  /\ UNCHANGED <<cv_data, template, doc, rels, para_idx, iteration, calls, fills, last, crew>>

\* a second call of _build_replacements on the same record
FlattenAgain ==
  /\ pc = "built"
  /\ pc' = "rebuilt"
  /\ replacements' = BuildReplacements(cv_data)
  /\ UNCHANGED <<cv_data, template, doc, rels, para_idx, iteration, calls, fills, last, crew>>

NextFlat == Flatten \/ FlattenAgain

SpecFlat == InitFlat /\ [][NextFlat]_vars

----------------------------------------------------------------------------
(* JobCVCrew._clean_yaml_output and save_customized_cv                     *)
(*   crew.output         str(result), the raw output of the pipeline       *)
(*   crew.safe_load      what yaml.safe_load did with the cleaned string:  *)
(*                       "none" (not called), "ok", "YAMLError", or        *)
(*                       "ValueError"                                      *)
(*   crew.customized_cv  the string _clean_yaml_output returned            *)
(*   crew.warned         the "may not be valid YAML" warning was printed   *)
(*   crew.file           what save_customized_cv wrote                     *)
(*   pc                  "idle", "cleaned", "saved" or "raised"            *)

\* the grave accent (U+0060), written as a value of its own
Backtick == "U+0060"

Fence == <<Backtick, Backtick, Backtick>>
FenceYaml == Fence \o <<"y", "a", "m", "l">>

HereIs ==
  <<"H", "e", "r", "e", " ", "i", "s", " ", "t", "h", "e", " ", "c", "u",
    "s", "t", "o", "m", "i", "z", "e", "d", " ", "C", "V", ":">>
Heres ==
  <<"H", "e", "r", "e", "'", "s", " ", "t", "h", "e", " ", "c", "u", "s",
    "t", "o", "m", "i", "z", "e", "d", " ", "C", "V", ":">>
BelowIs ==
  <<"B", "e", "l", "o", "w", " ", "i", "s", " ", "t", "h", "e", " ", "c",
    "u", "s", "t", "o", "m", "i", "z", "e", "d", " ", "C", "V", ":">>
TheCvIs ==
  <<"T", "h", "e", " ", "c", "u", "s", "t", "o", "m", "i", "z", "e", "d",
    " ", "C", "V", " ", "i", "s", ":">>
CustomizedCv ==
  <<"C", "u", "s", "t", "o", "m", "i", "z", "e", "d", " ", "C", "V", ":">>

intro_phrases == <<HereIs, Heres, BelowIs, TheCvIs, CustomizedCv>>

\* text.split(sep)[0]
SplitHead(text, sep) ==
  IF Contains(text, sep) THEN Slice(text, 0, Find(text, sep)) ELSE text

\* text.split(sep, 1)[1], for a text that holds sep
SplitTail(text, sep) == SliceFrom(text, Find(text, sep) + Len(sep))

\* text.split(sep)[1], for a text that holds sep
SplitSecond(text, sep) == SplitHead(SplitTail(text, sep), sep)

\* "Remove markdown code blocks if present"
RemoveCodeBlock(output) ==
  IF Contains(output, FenceYaml)
  THEN SplitHead(SplitSecond(output, FenceYaml), Fence)
  ELSE IF Contains(output, Fence)
       THEN SplitHead(SplitSecond(output, Fence), Fence)
       ELSE output

\* "Remove common introductory phrases": the loop from phrase i on
RECURSIVE RemoveIntroPhrases(_, _)
RemoveIntroPhrases(output, i) ==
  IF i > Len(intro_phrases) THEN output
  ELSE RemoveIntroPhrases(IF Contains(output, intro_phrases[i])
                          THEN SplitTail(output, intro_phrases[i])
                          ELSE output,
                          i + 1)

Whitespace == {" ", "\n", "\t"}

\* output.strip()
RECURSIVE Strip(_)
Strip(text) ==
  IF text = <<>> THEN text
  ELSE IF text[1] \in Whitespace THEN Strip(Tail(text))
  ELSE IF text[Len(text)] \in Whitespace THEN Strip(SubSeq(text, 1, Len(text) - 1))
  ELSE text

\* the string _clean_yaml_output goes on to validate and return
CleanedText(output) == Strip(RemoveIntroPhrases(RemoveCodeBlock(output), 1))

\* a plain scalar of timestamp shape that names no calendar day
BadDate ==
  <<"2", "0", "2", "3", "-", "0", "2", "-", "3", "0">>

\* yaml.safe_load(output): it returns, or raises a yaml.YAMLError for text
\* that is no YAML; for a scalar of timestamp shape that names no calendar
\* day the construction of the date raises a ValueError, which is no
\* yaml.YAMLError
SafeLoadOutcomes(text) ==
  IF Contains(text, BadDate) THEN {"YAMLError", "ValueError"}
  ELSE {"ok", "YAMLError"}

MaxChunks == 3

\* what the raw outputs are made of: fences, introductory phrases,
\* whitespace and YAML text
YamlText ==
  <<"a", ":", " ", "1">>
DatedText ==
  <<"d", ":", " ", "2", "0", "2", "3", "-", "0", "2", "-", "3", "0">>

Chunks == {FenceYaml, Fence, HereIs, CustomizedCv, <<" ">>, <<"\n">>,
           YamlText, DatedText}

RawOutputs == {Concat(chunks) : chunks \in SeqsUpTo(Chunks, MaxChunks)}

InitClean ==
  /\ \E output \in RawOutputs : crew = [NoCrew EXCEPT !.output = output]
  /\ cv_data = Profile0
  /\ doc = [body |-> <<>>, cells |-> <<>>, header |-> <<>>]
  /\ template = doc
  /\ replacements = NoMap
  /\ rels = <<>>
  /\ pc = "idle"
  /\ para_idx = 1
  /\ iteration = 0
  /\ calls = ZeroCalls(doc)
  /\ fills = 0
  /\ last = NoLast

\* cleaned_result = self._clean_yaml_output(str(result))
CleanYamlOutput ==
  /\ pc = "idle"
  /\ \E outcome \in SafeLoadOutcomes(CleanedText(crew.output)) :
       /\ crew' = [crew EXCEPT
                     !.safe_load = outcome,
                     !.warned = (outcome = "YAMLError"),
                     !.customized_cv = IF outcome = "ValueError" THEN None
                                       ELSE S(CleanedText(crew.output))]
       /\ pc' = IF outcome = "ValueError" THEN "raised" ELSE "cleaned"
  /\ UNCHANGED <<cv_data, replacements, template, doc, rels, para_idx,
                 iteration, calls, fills, last>>

\* crew.save_customized_cv(customized_cv)
SaveCustomizedCv ==
  /\ pc = "cleaned"
  /\ crew' = [crew EXCEPT !.file = crew.customized_cv]
  /\ pc' = "saved"
  /\ UNCHANGED <<cv_data, replacements, template, doc, rels, para_idx,
                 iteration, calls, fills, last>>

NextClean == CleanYamlOutput \/ SaveCustomizedCv

SpecClean == InitClean /\ [][NextClean]_vars

----------------------------------------------------------------------------
(* Vocabulary of the properties                                            *)

Parts == {"body", "cells"}

\* the paragraphs fill_template visits
Visited == UNION { {<<part, i>> : i \in 1..Len(doc[part])} : part \in Parts }

Now(v) == doc[v[1]][v[2]]
InTemplate(v) == template[v[1]][v[2]]

\* the map tokens that occur in a text
TokensIn(text) == {token \in DOMAIN replacements : Contains(text, token)}

\* the paragraph the last pass ran on, as the pass left it
AfterLast == doc[last.part][last.idx]
APassRan == last.part \in Parts

\* the run and hyperlink children of a paragraph
Inline(para) == SelectSeq(para, LAMBDA node : node.kind \in {"run", "hyperlink"})
Hyperlinks(para) == SelectSeq(para, LAMBDA node : node.kind = "hyperlink")
OnlyPlainRuns(para) == Hyperlinks(para) = <<>>

\* rendered text of the elements seq[lo..hi]
TextOfRange(seq, lo, hi) ==
  Concat([i \in 1..(IF hi >= lo THEN hi - lo + 1 ELSE 0) |-> NodeText(seq[lo + i - 1])])

\* the 1-based position, among the inline elements, of the element that
\* holds the rendered character at a 0-based offset
ElementAt(inline, offset) ==
  CHOOSE k \in 1..Len(inline) :
    /\ Len(TextOfRange(inline, 1, k - 1)) <= offset
    /\ offset < Len(TextOfRange(inline, 1, k))

----------------------------------------------------------------------------
\* C1 as stated: once fill_template has completed, no map token that the
\* template paragraph held occurs in the paragraph's rendered text.
C1_NoTokenRemains ==
  pc = "done" =>
    \A v \in Visited :
      \A token \in TokensIn(ParagraphText(InTemplate(v))) :
        ~Contains(ParagraphText(Now(v)), token)

\* C1 amended: once fill_template has completed, no map token occurs in the
\* rendered text of a paragraph on which fewer than 20 passes were made;
\* only a paragraph that used all 20 passes can still hold one.
C1_NoTokenRemainsBelowCap ==
  pc = "done" =>
    \A v \in Visited :
      calls[v[1]][v[2]] < 20 => TokensIn(ParagraphText(Now(v))) = {}

\* a fill that replaced the tokens of a paragraph in fewer than 20 passes
C1_Witness ==
  /\ pc = "done"
  /\ \E v \in Visited :
       /\ TokensIn(ParagraphText(InTemplate(v))) # {}
       /\ calls[v[1]][v[2]] \in 2..19
       /\ TokensIn(ParagraphText(Now(v))) = {}

\* C2: in a fill of a document whose paragraph holds no map token, the
\* pass loop of that paragraph stops at its first check: the paragraph is
\* never passed to _replace_in_paragraph and stays equal, node for node, to
\* what the fill loaded.
C2_RefillIsNoOp ==
  \A v \in Visited :
    (pc \in {"body", "cells", "done"} /\ TokensIn(ParagraphText(InTemplate(v))) = {}) =>
      /\ Now(v) = InTemplate(v)
      /\ calls[v[1]][v[2]] = 0
      /\ (pc = v[1] /\ para_idx = v[2]) => iteration = 0

\* a second fill has completed over a paragraph that the first fill changed
\* and left without tokens
C2_Witness ==
  /\ fills = 2
  /\ pc = "done"
  /\ APassRan
  /\ last.resolved
  /\ TokensIn(ParagraphText(InTemplate(<<last.part, last.idx>>))) = {}
  /\ Hyperlinks(AfterLast) # <<>>

\* the work left: every step of fill_template decreases it
PerParagraph == max_iterations + 1
FillCost == (Len(doc.body) + Len(doc.cells) + 3) * PerParagraph
LeftIn(part) ==
  (IF para_idx < Len(doc[part]) THEN Len(doc[part]) - para_idx ELSE 0) * PerParagraph
  + (max_iterations - iteration) + 1
Rank ==
  (MaxFills - fills) * FillCost
  + (CASE pc = "body" -> LeftIn("body") + (Len(doc.cells) + 1) * PerParagraph
       [] pc = "cells" -> LeftIn("cells")
       [] OTHER -> 0)

PPrBlocks(para) == SelectSeq(para, LAMBDA node : node.kind = "pPr")

\* C4: after any sequence of passes, a paragraph's properties block equals
\* the block it had in the template and is still its first child.
C4_ParagraphPropertiesKept ==
  \A v \in Visited :
    /\ PPrBlocks(Now(v)) = PPrBlocks(InTemplate(v))
    /\ PPrBlocks(Now(v)) # <<>> => Now(v)[1] = InTemplate(v)[1]

\* a pass of either route has rebuilt a paragraph that has a properties block
C4_Witness ==
  /\ APassRan
  /\ last.resolved
  /\ last.route = "hyperlink"
  /\ PPrBlocks(last.before) # <<>>
  /\ AfterLast[1] = PPr
  /\ Len(AfterLast) > 2

----------------------------------------------------------------------------
(* The last pass: the match it resolved and where it lay                   *)

Old == Inline(last.before)
New == Inline(AfterLast)
OldText == ParagraphText(last.before)
MatchEnd == last.pos + Len(last.placeholder)
\* the elements that hold the first and the last character of the match
StartElem == ElementAt(Old, last.pos)
EndElem == ElementAt(Old, MatchEnd - 1)
Resolved == APassRan /\ last.resolved
\* the element of the rebuilt paragraph that replaces the match: it follows
\* exactly the rendered text that preceded the match
IsReplacementAt(k) == TextOfRange(New, 1, k - 1) = Slice(OldText, 0, last.pos)

\* C5: when a plain-text token's match starts inside a plain run R, the new
\* run that carries the replacement value has the font name, size, bold,
\* italic, underline and color of R.
C5_ValueTakesStartRunFormatting ==
  (Resolved /\ last.route = "plain" /\ Old[StartElem].kind = "run") =>
    \E k \in 1..Len(New) :
      /\ IsReplacementAt(k)
      /\ New[k].kind = "run"
      /\ New[k].text = Str(last.value)
      /\ New[k].font = Old[StartElem].font

\* 'Jo' replaces {{NAME}} after leading text in a bold Arial 11pt run, and
\* the paragraph has a run of another formatting
C5_Witness ==
  /\ Resolved
  /\ last.placeholder = TokNAME
  /\ Old[StartElem].kind = "run"
  /\ Old[StartElem].font = FontA
  /\ Len(TextOfRange(Old, 1, StartElem - 1)) < last.pos
  /\ \E k \in 1..Len(New) : New[k] = Run(Jo, FontA)
  /\ \E k \in 1..Len(New) : New[k].kind = "run" /\ New[k].font = FontB

HyperlinksOfRange(seq, lo, hi) ==
  SelectSeq([i \in 1..(IF hi >= lo THEN hi - lo + 1 ELSE 0) |-> seq[lo + i - 1]],
            LAMBDA node : node.kind = "hyperlink")

\* is seq a subsequence of the sequence full
RECURSIVE IsSubsequence(_, _)
IsSubsequence(seq, full) ==
  IF seq = <<>> THEN TRUE
  ELSE IF full = <<>> THEN FALSE
  ELSE IF Head(seq) = Head(full) THEN IsSubsequence(Tail(seq), Tail(full))
  ELSE IsSubsequence(seq, Tail(full))

\* C7 as stated: every hyperlink of the template paragraph is still
\* present, unchanged and in the same order, after every pass and after
\* fill, wherever the tokens lie.
C7_EveryHyperlinkSurvives ==
  \A v \in Visited :
    pc # "raised" => IsSubsequence(Hyperlinks(InTemplate(v)), Hyperlinks(Now(v)))

\* C7 amended: a pass keeps, unchanged and in place, every hyperlink of the
\* paragraph that lies before the element in which the match starts or after
\* the element in which it ends; the hyperlinks in which the match starts or
\* ends, and those between them, are removed.  A pass that returns early
\* keeps every element.
C7_HyperlinksOutsideMatchSurvive ==
  /\ (APassRan /\ ~last.resolved /\ ~last.raised) => AfterLast = last.before
  /\ Resolved =>
       /\ \A i \in 1..(StartElem - 1) :
            Old[i].kind = "hyperlink" =>
              \E k \in 1..Len(New) :
                /\ New[k] = Old[i]
                /\ TextOfRange(New, 1, k - 1) = TextOfRange(Old, 1, i - 1)
       /\ \A i \in (EndElem + 1)..Len(Old) :
            Old[i].kind = "hyperlink" =>
              \E k \in 1..Len(New) :
                /\ New[k] = Old[i]
                /\ TextOfRange(New, k + 1, Len(New)) = TextOfRange(Old, i + 1, Len(Old))
       /\ \E added \in {<<>>} \cup {<<New[k]>> : k \in 1..Len(New)} :
            /\ Len(added) = (IF last.route = "hyperlink" THEN 1 ELSE 0)
            /\ Hyperlinks(AfterLast)
                 = HyperlinksOfRange(Old, 1, StartElem - 1) \o added
                     \o HyperlinksOfRange(Old, EndElem + 1, Len(Old))

\* a pass resolved a token lying between two hyperlinks of the template
C7_Witness ==
  /\ Resolved
  /\ fills = 1
  /\ StartElem = 2
  /\ EndElem = 2
  /\ Len(Old) = 3
  /\ Old[1].kind = "hyperlink"
  /\ Old[3].kind = "hyperlink"
  /\ New[1] = Old[1]
  /\ New[Len(New)] = Old[3]

\* the personal_info URL that a hyperlink token stands for
ProfileUrl(placeholder) ==
  LET personal_info == IF "personal_info" \in DOMAIN cv_data
                       THEN cv_data["personal_info"].v ELSE [k \in {} |-> Empty]
  IN  Get(personal_info, IF placeholder = TokGITHUB THEN "github" ELSE "linkedin", Empty).v

\* the URL unchanged when it starts with a scheme, else prefixed with https://
ExpectedTarget(placeholder) ==
  LET url == ProfileUrl(placeholder)
  IN  IF Slice(url, 0, 7) = HTTP \/ Slice(url, 0, 8) = HTTPS THEN url ELSE HTTPS \o url

FixedWord(placeholder) ==
  IF placeholder = TokGITHUB THEN <<"G", "i", "t", "h", "u", "b">>
  ELSE <<"L", "i", "n", "k", "e", "d", "i", "n">>

\* C8: a pass that resolves {{GITHUB}} or {{LINKEDIN}}, and no other token,
\* puts in place of the match a new hyperlink whose display text is 'Github'
\* or 'Linkedin' and whose target is the profile URL, prefixed with https://
\* unless it starts with http:// or https://; a pass that resolves any other
\* token puts a plain run with the map value there and adds no hyperlink.
C8_HyperlinkRouting ==
  Resolved =>
    IF last.placeholder \in {TokGITHUB, TokLINKEDIN}
    THEN /\ last.route = "hyperlink"
         /\ \E k \in 1..Len(New) :
              /\ Old[StartElem].kind = "run" => IsReplacementAt(k)
              /\ Old[EndElem].kind = "run" =>
                   TextOfRange(New, k + 1, Len(New)) = SliceFrom(OldText, MatchEnd)
              /\ New[k].kind = "hyperlink"
              /\ HyperlinkText(New[k]) = FixedWord(last.placeholder)
              /\ New[k].rid \in 1..Len(rels)
              /\ rels[New[k].rid] = ExpectedTarget(last.placeholder)
         /\ Len(Hyperlinks(AfterLast))
              = Len(HyperlinksOfRange(Old, 1, StartElem - 1))
                  + Len(HyperlinksOfRange(Old, EndElem + 1, Len(Old))) + 1
    ELSE /\ last.route = "plain"
         /\ \E k \in 1..Len(New) :
              /\ Old[StartElem].kind = "run" => IsReplacementAt(k)
              /\ New[k].kind = "run"
              /\ New[k].text = Str(last.value)
         /\ IsSubsequence(Hyperlinks(AfterLast), Hyperlinks(last.before))

\* github 'jdoe' and 'P:{{GITHUB}}b': a hyperlink 'Github' to https://jdoe
\* stands between 'P:' and 'b'
C8_Witness ==
  /\ Resolved
  /\ last.placeholder = TokGITHUB
  /\ ProfileUrl(TokGITHUB) = <<"j", "d", "o", "e">>
  /\ ParagraphText(AfterLast) = <<"P", ":", "G", "i", "t", "h", "u", "b", "b">>
  /\ \E k \in 1..Len(New) :
       /\ New[k].kind = "hyperlink"
       /\ HyperlinkText(New[k]) = <<"G", "i", "t", "h", "u", "b">>
       /\ rels[New[k].rid] = HTTPS \o <<"j", "d", "o", "e">>

\* the markers of token shape in a text: '{{', no brace between, '}}'
MarkersIn(text) ==
  { Slice(text, a, b) : a \in 0..Len(text), b \in 0..Len(text) } \cap
  { m \in { Slice(text, a, b) : a \in 0..Len(text), b \in 0..Len(text) } :
      /\ Len(m) >= 5
      /\ SubSeq(m, 1, 2) = <<"{", "{">>
      /\ SubSeq(m, Len(m) - 1, Len(m)) = <<"}", "}">>
      /\ \A i \in 3..(Len(m) - 2) : m[i] \notin {"{", "}"} }

\* C9 as stated: a marker of token shape that a template paragraph holds
\* and that is no key of the map is resolved to the empty string, so that
\* after fill it no longer occurs in the rendered text.
C9_UnknownMarkerRemoved ==
  pc = "done" =>
    \A v \in Visited :
      \A m \in MarkersIn(ParagraphText(InTemplate(v))) :
        m \notin DOMAIN replacements => ~Contains(ParagraphText(Now(v)), m)

----------------------------------------------------------------------------
\* the entries of a list section of the profile (none when it is absent)
Entries(key) == IF key \in DOMAIN cv_data THEN cv_data[key].v ELSE <<>>
Has(token) == token \in DOMAIN replacements

\* text is the strings items[1..k] in list order with one newline between
\* two neighbours: items[m] stands at the offset that the items before it
\* and their newlines take up
RECURSIVE OffsetOf(_, _)
OffsetOf(items, m) ==
  IF m = 1 THEN 0 ELSE OffsetOf(items, m - 1) + Len(items[m - 1].v) + 1
IsNewlineJoined(text, items) ==
  /\ Len(text) = IF items = <<>> THEN 0
                 ELSE OffsetOf(items, Len(items)) + Len(items[Len(items)].v)
  /\ \A m \in 1..Len(items) :
       /\ Slice(text, OffsetOf(items, m), OffsetOf(items, m) + Len(items[m].v)) = items[m].v
       /\ m > 1 => text[OffsetOf(items, m)] = Newline

\* C10: for the experience entry at list position n (from 1) whose
\* achievements is a list a[1..k] of strings, the map has
\* EXP_n_ACHIEVEMENT_m = a[m] for m in 1..k and none for m > k, and
\* EXP_n_ACHIEVEMENTS is the items joined by newline in list order; the
\* EDU_n_, EXP_n_ and PROJ_n_ tokens are numbered by the position of the
\* entry in its list, and no token has a number beyond the list's length.
C10_NumberedByPosition ==
  pc = "built" =>
    /\ \A n \in 1..Len(Entries("experience")) :
         LET exp == Entries("experience")[n].v
         IN  /\ Has(TokEXP(n, SfxCOMPANY))
             /\ replacements[TokEXP(n, SfxCOMPANY)] = Get(exp, "company", Empty)
             /\ ("achievements" \in DOMAIN exp /\ IsList(exp.achievements)) =>
                  LET a == exp.achievements.v
                  IN  /\ \A m \in 1..Len(a) :
                           /\ Has(TokEXP_ACHIEVEMENT(n, m))
                           /\ replacements[TokEXP_ACHIEVEMENT(n, m)] = a[m]
                      /\ \A m \in {0} \cup ((Len(a) + 1)..(MaxItems + 2)) :
                           ~Has(TokEXP_ACHIEVEMENT(n, m))
                      /\ Has(TokEXP(n, SfxACHIEVEMENTS))
                      /\ IsStr(replacements[TokEXP(n, SfxACHIEVEMENTS)])
                      /\ IsNewlineJoined(replacements[TokEXP(n, SfxACHIEVEMENTS)].v, a)
    /\ \A n \in 1..Len(Entries("education")) :
         LET edu == Entries("education")[n].v
         IN  /\ Has(TokEDU(n, SfxSCHOOL))
             /\ replacements[TokEDU(n, SfxSCHOOL)]
                  = IF "school" \in DOMAIN edu THEN edu.school
                    ELSE Get(edu, "institution", Empty)
    /\ \A n \in 1..Len(Entries("projects")) :
         LET proj == Entries("projects")[n].v
         IN  /\ Has(TokPROJ(n, SfxNAME))
             /\ replacements[TokPROJ(n, SfxNAME)] = Get(proj, "name", Empty)
    /\ \A n \in {0} \cup (1..(MaxEntries + 2)) :
         /\ n \notin 1..Len(Entries("experience")) =>
              /\ ~Has(TokEXP(n, SfxCOMPANY))
              /\ \A m \in 0..(MaxItems + 2) : ~Has(TokEXP_ACHIEVEMENT(n, m))
         /\ n \notin 1..Len(Entries("education")) => ~Has(TokEDU(n, SfxSCHOOL))
         /\ n \notin 1..Len(Entries("projects")) => ~Has(TokPROJ(n, SfxNAME))

\* two entries: the first with achievements ['y z', 'x'], the second with
\* ['x'] only
C10_Witness ==
  /\ pc = "built"
  /\ Len(Entries("experience")) = 2
  /\ Get(Entries("experience")[1].v, "achievements", None)
       = L(<<S(<<"y", "z">>), S(<<"x">>)>>)
  /\ Get(Entries("experience")[2].v, "achievements", None) = L(<<S(<<"x">>)>>)
  /\ replacements[TokEXP_ACHIEVEMENT(1, 2)] = S(<<"x">>)
  /\ replacements[TokEXP(1, SfxACHIEVEMENTS)] = S(<<"y", "z", Newline, "x">>)
  /\ replacements[TokEXP(2, SfxACHIEVEMENTS)] = S(<<"x">>)
  /\ ~Has(TokEXP_ACHIEVEMENT(2, 2))

----------------------------------------------------------------------------
\* the token families of the sections
PersonalFamily ==
  {TokNAME, TokName, TokLOCATION, TokEMAIL, TokPHONE, TokGITHUB, TokLINKEDIN}
EduFamily(n) ==
  {TokEDU(n, field) : field \in {SfxSCHOOL, SfxLOCATION, SfxDEGREE, SfxDATE, SfxCOURSES}}
ExpFamily(n) ==
  {TokEXP(n, field) : field \in {SfxCOMPANY, SfxLOCATION, SfxTITLE, SfxDATE, SfxACHIEVEMENTS}}
SkillsFamily ==
  {TokSKILL_LANGUAGE, TokSKILLS_LANGUAGES, TokSKILL_FRAME_TOOL,
   TokSKILLS_FRAMEWORKS_TOOLS, TokSKILLS_LANGUAGE_PROCESSING, TokSKILLS_DATA_VIZ}
ProjFamily(n) == {TokPROJ(n, field) : field \in {SfxNAME, SfxDATE, SfxDESC}}

\* C11 as stated: whenever a section exists in the profile, every token of
\* its family is a key of the map (with value '' when the optional field is
\* missing); no such token is an absent key.
C11_FamilyTokensAreKeys ==
  pc = "built" =>
    /\ "personal_info" \in DOMAIN cv_data => PersonalFamily \subseteq DOMAIN replacements
    /\ \A n \in 1..Len(Entries("education")) : EduFamily(n) \subseteq DOMAIN replacements
    /\ \A n \in 1..Len(Entries("experience")) : ExpFamily(n) \subseteq DOMAIN replacements
    /\ "skills" \in DOMAIN cv_data => SkillsFamily \subseteq DOMAIN replacements
    /\ \A n \in 1..Len(Entries("projects")) : ProjFamily(n) \subseteq DOMAIN replacements

----------------------------------------------------------------------------
\* the date an entry gives: its non-empty 'date' string, else its start and
\* end joined by an en-dash with one space on each side, else ''
GivenDate(entry) ==
  IF "date" \in DOMAIN entry /\ entry.date.t = "str" /\ Len(entry.date.v) > 0
  THEN entry.date
  ELSE IF {"start_date", "end_date"} \subseteq DOMAIN entry
       THEN [t |-> "str",
             v |-> Str(entry.start_date) \o <<" ", "EN-DASH", " ">> \o Str(entry.end_date)]
       ELSE [t |-> "str", v |-> <<>>]

----------------------------------------------------------------------------
\* text is the strings items[1..k] in list order with sep between neighbours
RECURSIVE OffsetWith(_, _, _)
OffsetWith(items, m, sep) ==
  IF m = 1 THEN 0 ELSE OffsetWith(items, m - 1, sep) + Len(items[m - 1].v) + Len(sep)
IsJoinedBy(text, items, sep) ==
  /\ Len(text) = IF items = <<>> THEN 0
                 ELSE OffsetWith(items, Len(items), sep) + Len(items[Len(items)].v)
  /\ \A m \in 1..Len(items) :
       LET at == OffsetWith(items, m, sep)
       IN  /\ Slice(text, at, at + Len(items[m].v)) = items[m].v
           /\ m > 1 => Slice(text, at - Len(sep), at) = sep

\* the value of a field of a dict when it is a list, else the empty list
ListField(fields, key) ==
  IF key \in DOMAIN fields /\ fields[key].t = "list" THEN fields[key].v ELSE <<>>
HasListField(fields, key) == key \in DOMAIN fields /\ fields[key].t = "list"
SkillsFields ==
  IF "skills" \in DOMAIN cv_data /\ cv_data["skills"].t = "dict"
  THEN cv_data["skills"].v ELSE [k \in {} |-> Empty]
FrameworksKey ==
  IF "frameworks_tools" \in DOMAIN SkillsFields THEN "frameworks_tools"
  ELSE "frameworks_and_tools"
ValueIs(token, text) ==
  Has(token) /\ replacements[token].t = "str" /\ replacements[token].v = text

KnownTokens ==
  PersonalFamily \cup SkillsFamily
    \cup UNION {EduFamily(n) \cup ExpFamily(n) \cup ProjFamily(n) : n \in 1..(MaxEntries + 1)}
    \cup {TokEXP_ACHIEVEMENT(n, m) : n \in 1..(MaxEntries + 1), m \in 1..(MaxItems + 1)}
    \cup {TokPROJ_DESC(n, m) : n \in 1..(MaxEntries + 1), m \in 1..(MaxItems + 1)}

----------------------------------------------------------------------------
\* the section a token belongs to, by its family
SectionOf(token) ==
  CASE token \in PersonalFamily -> "personal_info"
    [] token \in SkillsFamily -> "skills"
    [] Slice(token, 0, 6) = <<"{", "{", "E", "D", "U", "_">> -> "education"
    [] Slice(token, 0, 6) = <<"{", "{", "E", "X", "P", "_">> -> "experience"
    [] Slice(token, 0, 7) = <<"{", "{", "P", "R", "O", "J", "_">> -> "projects"
    [] OTHER -> "none"

NoTokenOfAbsentSection ==
  \A token \in DOMAIN replacements : SectionOf(token) \in DOMAIN cv_data

\* a list of the record holds an item that is no string
SomeListHoldsNonString ==
  \E n \in 1..Len(Entries("experience")) :
    \E m \in 1..Len(ListField(Entries("experience")[n].v, "achievements")) :
      ListField(Entries("experience")[n].v, "achievements")[m].t # "str"

----------------------------------------------------------------------------
\* C15: fill_template runs its passes over the paragraphs of the body and
\* of the table cells, and over each of them that holds a map token; the
\* header, a part outside the two loops, is the same before, during and
\* after the fill, although its text is a token of the map.
C15_FrameOfFill ==
  /\ doc.header = <<HeaderParagraph>>
  /\ template.header = doc.header
  /\ APassRan => last.part \in Parts
  /\ pc = "done" =>
       \A v \in Visited :
         TokensIn(ParagraphText(InTemplate(v))) # {} => calls[v[1]][v[2]] >= 1

\* a fill replaced {{NAME}} in a body or cell paragraph while the header
\* still reads {{NAME}}
C15_Witness ==
  /\ pc = "done"
  /\ Has(TokNAME)
  /\ ParagraphText(doc.header[1]) = TokNAME
  /\ \E v \in Visited :
       /\ Contains(ParagraphText(InTemplate(v)), TokNAME)
       /\ ~Contains(ParagraphText(Now(v)), TokNAME)
       /\ calls[v[1]][v[2]] >= 1

----------------------------------------------------------------------------
\* the rendered offset at which element k of the rebuilt paragraph starts,
\* and the number of rendered characters from its start to the end
StartOf(k) == Len(TextOfRange(New, 1, k - 1))
TailFrom(k) == Len(TextOfRange(New, k, Len(New)))

\* C16 as stated: every run a pass re-emits (text before the match, text
\* after the match, untouched runs before and after the span) has the font
\* name, size, bold, italic, underline and color of its source run, in a
\* pass that resolves a plain-text token and in one that resolves
\* {{GITHUB}} or {{LINKEDIN}}.
C16_ReemittedRunsKeepSixAttributes ==
  (Resolved /\ Old[StartElem].kind = "run" /\ Old[EndElem].kind = "run") =>
    \A k \in 1..Len(New) :
      (New[k].kind = "run" /\ New[k].text # <<>>) =>
        /\ StartOf(k) + Len(New[k].text) <= last.pos =>
             New[k].font = Old[ElementAt(Old, StartOf(k))].font
        /\ TailFrom(k) <= Len(OldText) - MatchEnd =>
             New[k].font = Old[ElementAt(Old, Len(OldText) - TailFrom(k))].font

----------------------------------------------------------------------------
\* what a resolved pass puts in place of the match: the fixed word for a
\* hyperlink token, else the map value as text
DisplayText ==
  IF last.route = "hyperlink" THEN FixedWord(last.placeholder) ELSE Str(last.value)

\* C17 as stated: for every pass that resolves a token at rendered offsets
\* [p, p+len), whatever the kinds of the start and end elements, the
\* rendered text after the pass is old[:p] + replacement display text +
\* old[p+len:].
C17_TextOutsideMatchKept ==
  Resolved =>
    ParagraphText(AfterLast)
      = Slice(OldText, 0, last.pos) \o DisplayText \o SliceFrom(OldText, MatchEnd)

----------------------------------------------------------------------------
\* the first plain run of the paragraph the last pass ran on
FirstPlainRun ==
  Old[CHOOSE i \in 1..Len(Old) :
        Old[i].kind = "run" /\ \A j \in 1..(i - 1) : Old[j].kind # "run"]

\* the formatting source the spec selects: the start element when it is a
\* plain run, else the first plain run of the paragraph
SelectedSource == IF Old[StartElem].kind = "run" THEN Old[StartElem] ELSE FirstPlainRun

\* the hyperlinks of the rebuilt paragraph that the pass made
NewHyperlinks ==
  {k \in 1..Len(New) :
     New[k].kind = "hyperlink" /\ \A i \in 1..Len(Old) : Old[i] # New[k]}

\* C18 as stated: when a pass resolves {{GITHUB}} or {{LINKEDIN}}, the new
\* hyperlink's run has the font name and size of the plain run that holds
\* the first character of the match, and of the first plain run of the
\* paragraph only when the match starts in a hyperlink; it always has a
\* single underline and the color 0563C1.
C18_HyperlinkTakesStartRunFont ==
  (Resolved /\ last.route = "hyperlink") =>
    /\ NewHyperlinks # {}
    /\ \A k \in NewHyperlinks :
         LET rPr == New[k].runs[1].rPr
         IN  /\ rPr.ascii = HyperlinkRPr(SelectedSource).ascii
             /\ rPr.sz = HyperlinkRPr(SelectedSource).sz
             /\ rPr.u = [t |-> "str", v |-> <<"s", "i", "n", "g", "l", "e">>]
             /\ rPr.color = [t |-> "str", v |-> <<"0", "5", "6", "3", "C", "1">>]

----------------------------------------------------------------------------
\* the first occurrence of each map token that the text holds
FirstOccurrences(text) == {Find(text, token) : token \in TokensIn(text)}

\* the occurrences of map tokens in a text: <<offset, token>>
Occurrences(text) ==
  {<<q, token>> \in (0..Len(text)) \X DOMAIN replacements : OccursAt(text, token, q)}

\* C19 as stated: a call of _replace_in_paragraph replaces at most one token
\* occurrence, the one whose start offset is the least among the first
\* occurrences of the map tokens in the rendered text; every other
\* occurrence, of another token or of the same token later on, is still in
\* the text after the pass, before the replacement at its old offset and
\* after it shifted by the change of length.
C19_OneMatchEarliestFirst ==
  Resolved =>
    /\ last.pos \in FirstOccurrences(OldText)
    /\ \A q \in FirstOccurrences(OldText) : last.pos <= q
    /\ OccursAt(OldText, last.placeholder, last.pos)
    /\ \A o \in Occurrences(OldText) :
         /\ o[1] + Len(o[2]) <= last.pos =>
              OccursAt(ParagraphText(AfterLast), o[2], o[1])
         /\ o[1] >= MatchEnd =>
              OccursAt(ParagraphText(AfterLast), o[2],
                       o[1] - Len(last.placeholder) + Len(DisplayText))

----------------------------------------------------------------------------
\* char_map as the pass builds it from the paragraph it is given
IndexOfPass == CharMap(Elements(last.before))

\* the (0-based element index, type, offset) that holds the rendered
\* character at a 0-based offset of the paragraph the pass was given
HolderOf(offset) ==
  LET k == ElementAt(Old, offset)
  IN  <<k - 1, Old[k].kind, offset - Len(TextOfRange(Old, 1, k - 1))>>

\* C20 as stated: at the start of every pass the CharacterIndex has one
\* slot per character of the paragraph's rendered text, and slot i names
\* the element and the offset within it that hold rendered character i;
\* so also when a hyperlink's run holds more than one text node.
C20_IndexMatchesRenderedText ==
  APassRan =>
    /\ Len(IndexOfPass) = Len(OldText)
    /\ \A i \in 1..Len(IndexOfPass) :
         i <= Len(OldText) => IndexOfPass[i] = HolderOf(i - 1)

----------------------------------------------------------------------------
\* the chosen match starts at or past the end of the index of the pass
StaleIndexMiss == APassRan /\ last.pos >= Len(IndexOfPass)

\* C21: when the start offset of the chosen match is greater than or equal
\* to the length of the CharacterIndex built in that pass, the pass raises
\* nothing and leaves the paragraph (elements, texts, formatting,
\* hyperlinks, paragraph properties) and the relationships as they were,
\* on the plain-text route and on the hyperlink route alike.
C21_StaleIndexMissIsNoOp ==
  StaleIndexMiss =>
    /\ ~last.raised
    /\ ~last.resolved
    /\ pc # "raised"
    /\ AfterLast = last.before
    /\ rels = last.rels

\* a stale miss on the hyperlink route: {{GITHUB}} found in the rendered
\* text of a paragraph that has a plain run, past the end of the index
C21_Witness ==
  /\ StaleIndexMiss
  /\ last.route = "hyperlink"
  /\ last.placeholder = TokGITHUB
  /\ \E k \in 1..Len(Old) : Old[k].kind = "run"
  /\ AfterLast = last.before

----------------------------------------------------------------------------
\* the map tokens in the rendered text of a paragraph as the fill found it
TemplateTokens(v) == TokensIn(ParagraphText(InTemplate(v)))

\* C22 as stated: when the rendered text of a paragraph holds more distinct
\* map tokens than the inner loop has passes (20), then once the fill has
\* completed at least one of those tokens still occurs in the paragraph's
\* rendered text, and the fill raised nothing.
C22_CapLeavesTokensBehind ==
  \A v \in Visited :
    (replacements # NoMap /\ Cardinality(TemplateTokens(v)) > max_iterations) =>
      /\ pc # "raised"
      /\ pc = "done" => \E token \in TemplateTokens(v) :
                          Contains(ParagraphText(Now(v)), token)

----------------------------------------------------------------------------
\* no leading and no trailing whitespace
IsStripped(text) ==
  text = <<>> \/ (text[1] \notin Whitespace /\ text[Len(text)] \notin Whitespace)

\* C23 as stated: for every raw output, _clean_yaml_output returns the
\* cleaned string (no code fence, stripped of whitespace) whether or not it
\* parses as YAML; a parse failure only prints a warning, no exception
\* escapes, and the string returned is the one save_customized_cv writes.
C23_ValidationIsNonFatal ==
  /\ pc # "raised"
  /\ pc \in {"cleaned", "saved"} =>
       /\ IsStr(crew.customized_cv)
       /\ IsStripped(crew.customized_cv.v)
       /\ ~Contains(crew.customized_cv.v, Fence)
       /\ crew.warned = (crew.safe_load # "ok")
  /\ pc = "saved" => crew.file = crew.customized_cv

----------------------------------------------------------------------------
\* the rendered offsets that the text inserted by the last pass occupies
InsertedFrom == last.pos
InsertedTo == last.pos + Len(DisplayText)

\* the map tokens that the inserted text brought into the paragraph: they
\* occur in the text after the pass at offsets that overlap the inserted
\* text, inside it or formed with the text next to it
ValueBorne ==
  {o \in Occurrences(ParagraphText(AfterLast)) :
     o[1] < InsertedTo /\ o[1] + Len(o[2]) > InsertedFrom}

\* the inner loop of the paragraph of the last pass has ended
LoopLeft ==
  \/ pc = "done"
  \/ pc = "cells" /\ last.part = "body"

\* a plain-text token whose value holds the token itself
SelfToken(token) ==
  /\ token \in DOMAIN replacements
  /\ ~IsHyperlinkPlaceholder(token)
  /\ Contains(Str(replacements[token]), token)

\* C24 as stated: the text a pass inserts is searched by the passes that
\* follow, so the loop leaves a paragraph whose last pass brought in a map
\* token only at the cap; and when the value of a token in the paragraph
\* holds that token, every pass performs a replacement, all 20 passes are
\* made and the token is in the text after the fill.
C24_ValuesAreRescanned ==
  /\ (Resolved /\ ValueBorne # {} /\ LoopLeft) =>
       calls[last.part][last.idx] = max_iterations
  /\ (APassRan /\ \E token \in TokensIn(OldText) : SelfToken(token)) =>
       /\ last.resolved
       /\ \E token \in TokensIn(ParagraphText(AfterLast)) : SelfToken(token)
       /\ LoopLeft => calls[last.part][last.idx] = max_iterations

\* C24 amended: the same, the second part for a paragraph that holds at
\* least one plain run.
C24_ValuesAreRescannedGivenARun ==
  /\ (Resolved /\ ValueBorne # {} /\ LoopLeft) =>
       calls[last.part][last.idx] = max_iterations
  /\ (APassRan /\ (\E k \in 1..Len(Old) : Old[k].kind = "run")
        /\ \E token \in TokensIn(OldText) : SelfToken(token)) =>
       /\ last.resolved
       /\ \E token \in TokensIn(ParagraphText(AfterLast)) : SelfToken(token)
       /\ LoopLeft => calls[last.part][last.idx] = max_iterations

\* a fill has completed over a paragraph whose token has a value holding
\* that token: 20 passes, each a replacement, the last one bringing the
\* token in again
C24_Witness ==
  /\ pc = "done"
  /\ Resolved
  /\ SelfToken(last.placeholder)
  /\ \E o \in ValueBorne : o[2] = last.placeholder
  /\ calls[last.part][last.idx] = max_iterations
  /\ Hyperlinks(InTemplate(<<last.part, last.idx>>)) # <<>>

----------------------------------------------------------------------------
\* a paragraph whose content is hyperlink elements only
NoPlainRun(para) ==
  /\ Inline(para) # <<>>
  /\ \A k \in 1..Len(Inline(para)) : Inline(para)[k].kind = "hyperlink"

\* C25: in a paragraph that holds a map token but no plain run, every pass
\* returns before it changes anything: while the fill runs and after it the
\* paragraph equals the one loaded, the token is in its rendered text,
\* nothing is raised, no pass resolves a token, and the loop leaves the
\* paragraph only after 20 passes.
C25_NoTemplateRunNoChange ==
  /\ (APassRan /\ NoPlainRun(last.before)) =>
       /\ ~last.resolved
       /\ ~last.raised
       /\ AfterLast = last.before
       /\ rels = last.rels
  /\ \A v \in Visited :
       (pc \in {"body", "cells", "done"} /\ NoPlainRun(InTemplate(v))
          /\ TemplateTokens(v) # {}) =>
         /\ pc # "raised"
         /\ Now(v) = InTemplate(v)
         /\ TokensIn(ParagraphText(Now(v))) = TemplateTokens(v)
         /\ (pc = "done" \/ (pc = "cells" /\ v[1] = "body")) => calls[v[1]][v[2]] = 20

\* a fill has completed over a paragraph of two hyperlinks that share a
\* token between them
C25_Witness ==
  /\ pc = "done"
  /\ APassRan
  /\ NoPlainRun(InTemplate(<<last.part, last.idx>>))
  /\ Len(Inline(last.before)) = 2
  /\ last.pos >= 0
  /\ calls[last.part][last.idx] = 20
  /\ AfterLast = InTemplate(<<last.part, last.idx>>)

----------------------------------------------------------------------------
\* personal_info exists and its github (or linkedin) field is absent or is
\* the empty string
UrlMissing(placeholder) ==
  /\ "personal_info" \in DOMAIN cv_data
  /\ LET personal_info == cv_data["personal_info"].v
         field == IF placeholder = TokGITHUB THEN "github" ELSE "linkedin"
     IN  field \in DOMAIN personal_info => personal_info[field] = S(<<>>)

====
